---- MODULE Spec2Model ----
(***************************************************************************)
(* A model of the easy-enclave control plane (src/control_plane): the     *)
(* per-WebSocket Session state machine of server.py, the in-memory        *)
(* Registry of registry.py, the node part of the Ledger of ledger.py and  *)
(* the allowlist cache of allowlist.py.                                    *)
(*                                                                         *)
(* The control plane is a single asyncio event loop: code between two     *)
(* suspension points runs atomically.  One action of the model is one     *)
(* such atomic piece: a frame handler, the finally block of handle_ws,    *)
(* one wake-up of a timer task, one HTTP proxy request up to its wait.    *)
(* ws.close() suspends (close handshake), so "socket closed" and          *)
(* "disconnect handled" are two steps.  Time is an integer clock; all     *)
(* durations are scaled to one clock unit, the registration ttl to three. *)
(* A timer task wakes up at its due time or later.                        *)
(***************************************************************************)
EXTENDS Integers, Sequences, FiniteSets, Bags, TLC

\* ---------------------------------------------------------------- bounds
NumSessions == 1
MaxTime == 2
MaxNonce == 2
MaxReq == 1
MaxFrames == 4
MaxTunnelReq == 2
MaxCalls == 4
MaxUsage == 2
MaxReports == 1
MaxEvents == 2
MaxRegCalls == 5
MaxPurchase == 3
MaxBalance == 2

\* ---------------------------------------------- program constants (scaled)
ATTEST_DEADLINE_SEC == 1
ATTEST_INTERVAL_SEC == 1
HEALTH_TIMEOUT_SEC == 1
REGISTRATION_TTL_DAYS == 3
REGISTRATION_WARN_DAYS == 1
AllowlistTtl == 1
ProxyTimeout == 1
RATLS_ENABLED == TRUE
RATLS_REQUIRE_CLIENT_CERT == TRUE

\* ------------------------------------------------------------ input sets
\* the two processes that keep RA-TLS material
RatlsProcesses == {"control_plane", "agent"}
Sessions == 1..NumSessions
Apps == {"demo", "other"}
\* the register frames agents send
Identities ==
    { [app_name |-> "demo",  repo |-> "org/a", release_tag |-> "v1",
       agent_id |-> "n1", network |-> "forge-1"],
      [app_name |-> "demo",  repo |-> "org/b", release_tag |-> "v1",
       agent_id |-> "n2", network |-> "forge-1"],
      [app_name |-> "other", repo |-> "org/a", release_tag |-> "v1",
       agent_id |-> "n2", network |-> "forge-1"] }
ReqIds == 1..MaxReq

allowed_networks == {"forge-1"}
sealed_networks == {"forge-1"}

None == "none"
NoNonce == 0
NoTime == -1

\* An attestation payload as policy.verify_attestation sees it:
\*   present - quote and measurements are both non-empty
\*   match   - every expected measurement of the allowlist is matched
\*   sealed  - bool(measurements.get("sealed"))
\*   dcap    - verify_quote accepts the quote and its report_data
Attestations ==
    { [present |-> TRUE,  match |-> TRUE,  sealed |-> TRUE,  dcap |-> TRUE],
      [present |-> TRUE,  match |-> TRUE,  sealed |-> FALSE, dcap |-> TRUE],
      [present |-> TRUE,  match |-> FALSE, sealed |-> TRUE,  dcap |-> TRUE] }

VARIABLES
    now,              \* the clock (time.monotonic, time.time, datetime.now)
    sessions,         \* Session objects, by socket
    sessions_tbl,     \* ControlPlane._sessions (its keys)
    sessions_by_app,  \* ControlPlane._sessions_by_app
    apps,             \* Registry._apps
    nodes,            \* Ledger table nodes (status columns)
    node_events,      \* Ledger table node_events
    allowlist_cache,  \* AllowlistCache._items: (repo, tag) -> fetched_at
    nonce_ctr,        \* number of nonces generated so far
    frames,           \* number of frames handled so far (a frame that is only
                      \* answered with a status, with no other effect, is not counted)
    watchdogs,        \* sleeping _attestation_timeout tasks
    loops,            \* sleeping _attest_loop tasks, per session
    hw_due,           \* wake-up time of health_watchdog
    reqs,             \* proxy requests of HTTP clients that wait for a response
    close_status,     \* history: the reason of the status frame sent before the server closed the socket
    last_request,     \* history: nonce and reason of the last attest_request sent
    outstanding,      \* history: nonces sent and not yet accepted
    accepted          \* history: the last accepted attest_response, and the
                      \* apps the session was admitted for

\* The agent's end of one admitted tunnel (tunnel_client.py, agent.py) and
\* the HTTP clients of its app
VARIABLES
    down,             \* frames sent to the agent that its loop has not read yet
    backend,          \* the request whose backend call the agent's loop awaits, or 0
    client,           \* the proxy requests of the HTTP clients, by request id
    round,            \* the attestation round on the tunnel
    health_at         \* time of the last health frame of the agent's health_loop

VARIABLES
    accounts,         \* Ledger table accounts: account_id -> balance_cents
    ledger,           \* Ledger table ledger (the entries, without their uuid)
    credit_locks,     \* Ledger table credit_locks, by lock_id
    usage,            \* Ledger table usage, by usage_id
    abuse_reports,    \* Ledger table abuse_reports, by report_id
    agents,           \* the tunnel session of each node's agent, as the Ledger's caller
    calls,            \* number of calls of the Ledger's credit and admin API so far
    last_call         \* the last such call: its name, what it raised, what it returned

cp_state == << sessions, sessions_tbl, sessions_by_app, apps, nodes,
               node_events, allowlist_cache, nonce_ctr, frames, watchdogs, loops,
               hw_due, reqs, close_status, last_request, outstanding, accepted >>

tunnel_state == << down, backend, client, round, health_at >>

ledger_state == << accounts, ledger, credit_locks, usage, abuse_reports, agents,
                   calls, last_call >>

VARIABLES
    reg_calls,        \* number of calls of the Registry made so far
    reg_call          \* the last call of Registry.register: its arguments, whether it raised

registry_state == << reg_calls, reg_call >>

VARIABLES
    purchases         \* two copies of one store: credits bought in two calls, and in one

\* the state of the parts of the program beside the control plane's
\* sessions, the tunnel and the Ledger
VARIABLES
    usage_report      \* a POST /v1/usage/report: the store it met, its body, its response

VARIABLES
    auth_check        \* the token configuration, one request and whether it was let in

VARIABLES
    deployment        \* the agent's deployment: request, worker position, files

VARIABLES
    quote_check       \* one call of verify_quote: its quote, position and outcome

VARIABLES
    release_scan      \* one call of get_latest_attestation: the releases and its outcome

VARIABLES
    tunnel_client     \* the agent's control-plane client: position, connections, frames

VARIABLES
    ratls_material    \* the RA-TLS material cache of a process and its last call

aux_state == << registry_state, purchases, usage_report, auth_check,
                deployment, quote_check, release_scan, tunnel_client,
                ratls_material >>

\* what the operations of one area leave alone in the other areas
beside_registry == << purchases, usage_report, auth_check, deployment,
                      quote_check, release_scan, tunnel_client, ratls_material >>
beside_purchases == << registry_state, usage_report, auth_check, deployment,
                       quote_check, release_scan, tunnel_client,
                       ratls_material >>
beside_usage_report == << registry_state, purchases, auth_check, deployment,
                          quote_check, release_scan, tunnel_client,
                          ratls_material >>
beside_auth_check == << registry_state, purchases, usage_report, deployment,
                        quote_check, release_scan, tunnel_client,
                        ratls_material >>
beside_deployment == << registry_state, purchases, usage_report, auth_check,
                        quote_check, release_scan, tunnel_client,
                        ratls_material >>
beside_quote_check == << registry_state, purchases, usage_report, auth_check,
                         deployment, release_scan, tunnel_client,
                         ratls_material >>
beside_release_scan == << registry_state, purchases, usage_report, auth_check,
                          deployment, quote_check, tunnel_client,
                          ratls_material >>
beside_tunnel_client == << registry_state, purchases, usage_report, auth_check,
                           deployment, quote_check, release_scan,
                           ratls_material >>
beside_ratls_material == << registry_state, purchases, usage_report,
                            auth_check, deployment, quote_check, release_scan,
                            tunnel_client >>

vars == << now, cp_state, tunnel_state, ledger_state, aux_state >>

\* -------------------------------------------------------------- Session
NewSession ==
    [ ws |-> "none", app_name |-> None, repo |-> None, release_tag |-> None,
      network |-> "prod", agent_id |-> None, tunnel_id |-> << None, 0 >>,
      pending_nonce |-> NoNonce, pending_sent_at |-> 0, registered |-> FALSE,
      attesting |-> FALSE, pending_proxy |-> {} ]

FreeSlot == [state |-> "free", sess |-> 0, app |-> None, due |-> 0]

NoAccept ==
    [nonce |-> NoNonce, sent |-> NoNonce, verified |-> FALSE, app |-> None,
     admitted |-> {}]

NoRequest == [nonce |-> NoNonce, reason |-> None]

\* session.ws.closed
WsClosed(s) == sessions[s].ws \in {"closing", "closed"}

\* a send on a socket that is closed or whose handler has died raises
SendRaises(s) == sessions[s].ws # "open"

\* ------------------------------------------------------------- Registry
registration_state(rec, t) ==
    IF t >= rec.registration_expires_at THEN "expired"
    ELSE IF t >= rec.registration_expires_at - REGISTRATION_WARN_DAYS THEN "warning"
    ELSE "active"

\* a status_payload that does not look at the health of the app
status_payload_without_health(rec, t) ==
    LET state == registration_state(rec, t)
        a0 == /\ state = "active"
              /\ rec.attestation_status = "valid"
              /\ rec.ws_connected
        a1 == IF rec.network = "prod" /\ ~rec.sealed THEN FALSE ELSE a0
        a2 == IF state = "expired" THEN FALSE ELSE a1
    IN  [ registration_state |-> state,
          sealed |-> rec.sealed,
          attestation_status |-> rec.attestation_status,
          health_status |-> rec.health_status,
          ws_connected |-> rec.ws_connected,
          allowed |-> a2 ]

status_payload(rec, t) ==
    LET state == registration_state(rec, t)
        a0 == /\ state = "active"
              /\ rec.attestation_status = "valid"
              /\ rec.health_status = "pass"
              /\ rec.ws_connected
        a1 == IF rec.network = "prod" /\ ~rec.sealed THEN FALSE ELSE a0
        a2 == IF state = "expired" THEN FALSE ELSE a1
    IN  [ registration_state |-> state,
          sealed |-> rec.sealed,
          attestation_status |-> rec.attestation_status,
          health_status |-> rec.health_status,
          ws_connected |-> rec.ws_connected,
          allowed |-> a2 ]

\* a register that accepts any repo for a known app
RegisterNeverRaises(reg, app, repo) == FALSE

\* Registry.register raises ValueError
RegisterRaises(reg, app, repo) == app \in DOMAIN reg /\ reg[app].repo # repo

\* a register that replaces the record of the app by a new one
Registry_register_anew(reg, app, repo, tag, network, agent, t) ==
    (app :> [ repo |-> repo, release_tag |-> tag, network |-> network,
              agent_id |-> agent, registered_at |-> t,
              registration_expires_at |-> t + REGISTRATION_TTL_DAYS,
              last_attested_at |-> NoTime, last_health_at |-> NoTime,
              sealed |-> FALSE, attestation_status |-> "unknown",
              health_status |-> "unknown", ws_connected |-> FALSE,
              tunnel_id |-> << None, 0 >> ]) @@ reg

Registry_register(reg, app, repo, tag, network, agent, t) ==
    IF app \in DOMAIN reg
    THEN [reg EXCEPT ![app].release_tag = tag,
                     ![app].network = network,
                     ![app].agent_id = agent,
                     ![app].registered_at = t,
                     ![app].registration_expires_at = t + REGISTRATION_TTL_DAYS]
    ELSE (app :> [ repo |-> repo, release_tag |-> tag, network |-> network,
                   agent_id |-> agent, registered_at |-> t,
                   registration_expires_at |-> t + REGISTRATION_TTL_DAYS,
                   last_attested_at |-> NoTime, last_health_at |-> NoTime,
                   sealed |-> FALSE, attestation_status |-> "unknown",
                   health_status |-> "unknown", ws_connected |-> FALSE,
                   tunnel_id |-> << None, 0 >> ]) @@ reg

mark_attested(reg, app, sealed, status, t) ==
    [reg EXCEPT ![app].last_attested_at = t,
                ![app].sealed = sealed,
                ![app].attestation_status = status]

mark_health(reg, app, status, t) ==
    [reg EXCEPT ![app].last_health_at = t, ![app].health_status = status]

mark_connection(reg, app, connected, tunnel) ==
    [reg EXCEPT ![app].ws_connected = connected, ![app].tunnel_id = tunnel]

\* --------------------------------------------------------------- Ledger
\* SQL NULL in an INTEGER column
NullCents == -1

ensure_node(nd, id) ==
    IF id \in DOMAIN nd THEN nd
    ELSE (id :> [ status |-> "active", attestation_status |-> "unknown",
                  health_status |-> "unknown",
                  price_cents_per_vcpu_hour |-> NullCents,
                  stake_amount_cents |-> NullCents ]) @@ nd

mark_attestation(nd, id, status) ==
    [ensure_node(nd, id) EXCEPT ![id].attestation_status = status]

Ledger_mark_health(nd, id, status) ==
    [ensure_node(nd, id) EXCEPT ![id].health_status = status]

record_node_event(ev, id, type, detail, t) ==
    ev (+) SetToBag({[ node_id |-> id, event_type |-> type, detail |-> detail,
                       occurred_at |-> t ]})

\* ------------------------------------------------------- AllowlistCache
\* AllowlistCache.get: the entry is there and not older than the ttl
CacheHit(cache, repo, tag, t) ==
    << repo, tag >> \in DOMAIN cache /\ ~(t - cache[<< repo, tag >>] > AllowlistTtl)

\* AllowlistCache.get pops an expired entry
CacheAfterGet(cache, repo, tag, t) ==
    IF << repo, tag >> \in DOMAIN cache /\ ~CacheHit(cache, repo, tag, t)
    THEN [k \in DOMAIN cache \ {<< repo, tag >>} |-> cache[k]]
    ELSE cache

CachePut(cache, repo, tag, t) ==
    (<< repo, tag >> :> t) @@ [k \in DOMAIN cache \ {<< repo, tag >>} |-> cache[k]]

\* --------------------------------------------------------------- policy
\* a verification that accepts an unsealed attestation on any network
verify_attestation_unsealed_ok(att, require_sealed) ==
    IF ~att.present
    THEN [verified |-> FALSE, reason |-> "missing_quote_or_measurements", sealed |-> FALSE]
    ELSE IF ~att.match
    THEN [verified |-> FALSE, reason |-> "measurement_mismatch", sealed |-> att.sealed]
    ELSE IF ~att.dcap
    THEN [verified |-> FALSE, reason |-> "dcap_verification_failed", sealed |-> att.sealed]
    ELSE [verified |-> TRUE, reason |-> "ok", sealed |-> att.sealed]

verify_attestation(att, require_sealed) ==
    IF ~att.present
    THEN [verified |-> FALSE, reason |-> "missing_quote_or_measurements", sealed |-> FALSE]
    ELSE IF ~att.match
    THEN [verified |-> FALSE, reason |-> "measurement_mismatch", sealed |-> att.sealed]
    ELSE IF require_sealed /\ ~att.sealed
    THEN [verified |-> FALSE, reason |-> "sealed_required", sealed |-> att.sealed]
    ELSE IF ~att.dcap
    THEN [verified |-> FALSE, reason |-> "dcap_verification_failed", sealed |-> att.sealed]
    ELSE [verified |-> TRUE, reason |-> "ok", sealed |-> att.sealed]

\* ----------------------------------------------------------- the tunnel
TunnelReqs == 1..MaxTunnelReq

\* ---- inputs of the Ledger's API
NodeIds == {"n1"}
AgentNodes == {"n1"}
AccountIds == {"alice", "n1"}
\* a usage period (period_start, period_end)
Periods == { << 0, 1 >>, << 2, 2 >> }
\* purchase and transfer amounts, in cents
Amounts == {0, 2}
\* price_cents_per_vcpu_hour and stake_amount_cents of register_node
Pricings == { [price |-> NullCents, stake |-> NullCents],
              [price |-> 1, stake |-> 0],
              [price |-> 1, stake |-> 1] }
\* vcpu_hours of report_usage, in half hours (0.5 and 2 hours)
HalfHours == {1, 4}

\* the session of a node's agent: no connection yet
NoAgent == [conn |-> "none", pending |-> FALSE, orphan |-> FALSE, missed |-> FALSE]

NoCall == [op |-> None, err |-> None, ret |-> << >>]

\* the paths of archive members, as sequences of components
ComposeYml == << "docker-compose.yml" >>
NestedYml == << "a", "docker-compose.yml" >>
NestedYaml == << "b", "docker-compose.yaml" >>
Traversal == << "..", "etc", "passwd" >>
Dotted == << "a", "..", "app.txt" >>
Members == { ComposeYml, NestedYml, NestedYaml, Traversal, Dotted }

\* the archive file an inline bundle is saved as inside its directory
BundleTarGz == << "bundle.tar.gz" >>
BundleZip == << "bundle.zip" >>

\* how a deploy request carries its bundle: bundle_b64 with a
\* bundle_format, an integer bundle_artifact_id, or neither
BundleSources == { "tar.gz", "zip", "rar", "artifact", "nothing" }

\* no deployment accepted yet
NoDeployment ==
    [ pc |-> "idle", source |-> "nothing", archive |-> {}, status |-> None,
      error |-> None, saved |-> << >>, bundle_dir |-> {}, extracted |-> FALSE,
      members_written |-> {}, outside |-> {}, compose_path |-> << >>,
      extra_files |-> {}, workload |-> {}, compose_invoked |-> FALSE,
      release_url |-> "", response |-> 0 ]

\* bytes 4..7 of a quote header, the tee_type field: TDX, SGX, and 0x81 in
\* the first byte with the last byte set as well
TeeTypeBytes == { << 129, 0, 0, 0 >>, << 0, 0, 0, 0 >>, << 129, 0, 0, 1 >> }

\* total lengths of a decoded quote
QuoteLengths == { 100, 635, 636, 1400 }

\* values of the signature-length field (bytes 632..635)
SigLengths == { 64, 600, 4000 }

\* verify_quote not called yet
NoQuoteCheck ==
    [ pc |-> "idle", decodable |-> FALSE, len |-> 0, tee |-> << 0, 0, 0, 0 >>,
      sig_len |-> 0, skip_pccs |-> FALSE, raised |-> None, chain_valid |-> FALSE,
      sig_valid |-> FALSE, pccs_calls |-> 0, verified |-> FALSE,
      tcb_status |-> "unknown" ]

\* the body of a release as the releases API gives it: null, text without
\* a fenced block, a fenced JSON block, a fenced block that is not JSON, a
\* fence that is opened and never closed
ReleaseBodies == { "null", "plain", "fenced", "fenced_invalid", "unclosed" }

\* a release: whether it has an attestation.json asset, and its body
Releases == [ asset : BOOLEAN, body : ReleaseBodies ]

MaxReleases == 2

\* the lists of releases the API may return
ReleaseLists == UNION { [ 1..n -> Releases ] : n \in 0..MaxReleases }

\* get_latest_attestation not called yet
NoReleaseScan == [ pc |-> "idle" ]

\* the agent's client before tunnel_client_loop (agent.py) or main
\* (tunnel_client.py) is started
NoClient ==
    [ impl |-> None, pc |-> "off", wake |-> 0, dials |-> 0, open |-> {},
      sent |-> << >>, inbox |-> << >>, health |-> {}, ended_at |-> NoTime,
      ended_by |-> None ]

\* no RA-TLS material: RATLS_MATERIAL is None, nothing was generated
NoMaterial == [ key |-> 0, not_after |-> NoTime ]

\* the RA-TLS state of a process before its first ensure_ratls_material
NoRatls ==
    [ cached |-> NoMaterial, files |-> NoMaterial, keys |-> 0, quotes |-> 0,
      calls |-> 0, returned |-> NoMaterial ]

\* no configuration of tokens yet
NoAuthCheck == [phase |-> "none"]

\* the unset token: env gives None for a variable that is missing or empty
Unset == None

\* the Authorization header of a request: absent, or a scheme and a token
AuthHeaders ==
    { [scheme |-> "none", token |-> ""] }
    \cup { [scheme |-> "Bearer", token |-> t] : t \in {"", "adm", "lch", "upt", "bad"} }
    \cup { [scheme |-> "Basic", token |-> "adm"] }

\* the kinds of guarded paths
PathKinds == {"admin", "launcher", "uptime"}

\* no usage report yet
NoUsageReport == [phase |-> "none"]

\* The vcpu_hours member of the JSON body of a usage report:
\*   json       - number, string or null (null: the member is absent)
\*   numeric    - Decimal(str(value)) accepts the text
\*   half_hours - its value in half hours, when numeric
\* that is 0, -1, 0.5, 2, "0", "1", "abc", "" and null
VcpuHoursValues ==
    { [json |-> "number", numeric |-> TRUE, half_hours |-> 0, empty |-> FALSE],
      [json |-> "number", numeric |-> TRUE, half_hours |-> -2, empty |-> FALSE],
      [json |-> "number", numeric |-> TRUE, half_hours |-> 1, empty |-> FALSE],
      [json |-> "number", numeric |-> TRUE, half_hours |-> 4, empty |-> FALSE],
      [json |-> "string", numeric |-> TRUE, half_hours |-> 0, empty |-> FALSE],
      [json |-> "string", numeric |-> TRUE, half_hours |-> 2, empty |-> FALSE],
      [json |-> "string", numeric |-> FALSE, half_hours |-> 0, empty |-> FALSE],
      [json |-> "string", numeric |-> FALSE, half_hours |-> 0, empty |-> TRUE],
      [json |-> "null", numeric |-> FALSE, half_hours |-> 0, empty |-> TRUE] }

\* no store to buy credits in yet
NoPurchases == [phase |-> "none"]

\* no call of Registry.register yet
NoRegister == [app_name |-> None, repo |-> None, release_tag |-> None,
               network |-> None, agent_id |-> None, raised |-> FALSE, at |-> NoTime,
               seq |-> 0]

\* a request no HTTP client has made yet
NewRequest == [state |-> "new", due |-> 0, answer |-> 0]

\* ----------------------------------------------------------------- Init
\* the state of everything but the control plane after construction
OtherInit ==
    /\ down = << >>
    /\ backend = 0
    /\ client = [r \in TunnelReqs |-> NewRequest]
    /\ round = [state |-> "none", due |-> 0]
    /\ health_at = 0
    /\ accounts = << >>
    /\ ledger = EmptyBag
    /\ credit_locks = << >>
    /\ usage = << >>
    /\ abuse_reports = << >>
    /\ agents = [n \in AgentNodes |-> NoAgent]
    /\ calls = 0
    /\ last_call = NoCall
    /\ reg_calls = 0
    /\ reg_call = NoRegister
    /\ purchases = NoPurchases
    /\ usage_report = NoUsageReport
    /\ auth_check = NoAuthCheck
    /\ deployment = NoDeployment
    /\ quote_check = NoQuoteCheck
    /\ release_scan = NoReleaseScan
    /\ tunnel_client = NoClient
    /\ ratls_material = [p \in RatlsProcesses |-> NoRatls]

Init ==
    /\ now = 0
    /\ sessions = [s \in Sessions |-> NewSession]
    /\ sessions_tbl = {}
    /\ sessions_by_app = << >>
    /\ apps = << >>
    /\ nodes = << >>
    /\ node_events = EmptyBag
    /\ allowlist_cache = << >>
    /\ nonce_ctr = 0
    /\ frames = 0
    /\ watchdogs = {}
    /\ loops = [s \in Sessions |-> << >>]
    /\ hw_due = HEALTH_TIMEOUT_SEC
    /\ reqs = [r \in ReqIds |-> FreeSlot]
    /\ close_status = [s \in Sessions |-> None]
    /\ last_request = [s \in Sessions |-> NoRequest]
    /\ outstanding = [s \in Sessions |-> {}]
    /\ accepted = [s \in Sessions |-> NoAccept]
    /\ OtherInit


\* ------------------------------------------------ pieces of the handlers
\* random tokens: a nonce is never generated twice
FreshNonce == nonce_ctr + 1

\* the random part of a tunnel id: any value no session or record holds
FreshTunnel ==
    CHOOSE k \in 1..(Len(sessions) + Cardinality(Apps) + 1) :
        /\ \A s \in DOMAIN sessions : sessions[s].tunnel_id[2] # k
        /\ \A a \in DOMAIN apps : apps[a].tunnel_id[2] # k

\* a sender without the guard of line 272
RoundInFlightUnchecked(sess) == FALSE

\* _send_attest_request, line 272: a round is already in flight
RoundInFlight(sess) == sess.attesting

\* _handle_attest_response, line 204
NoRoundPending(sess) == sess.pending_nonce = NoNonce

\* a handler that accepts whatever nonce the response carries
NonceMismatchUnchecked(sess, nonce) == FALSE

\* _handle_attest_response, line 207
NonceMismatch(sess, nonce) == nonce # sess.pending_nonce

\* a handler that accepts a response however late it arrives
ResponseLateUnchecked(sess, t) == FALSE

\* _handle_attest_response, line 212
ResponseLate(sess, t) == t - sess.pending_sent_at > ATTEST_DEADLINE_SEC

\* a watchdog that asks whether any round is pending, not its own
StillPendingAnyRound(sess, nonce) == sess.pending_nonce # NoNonce

\* _attestation_timeout, line 285
StillPending(sess, nonce) == sess.pending_nonce = nonce

\* _send_attest_request on socket s, whose Session object is sess when the
\* call starts: sets sessions, nonce_ctr, watchdogs and the history of
\* nonces
SendAttestRequest(s, sess, reason) ==
    IF RoundInFlight(sess)
    THEN /\ sessions' = [sessions EXCEPT ![s] = sess]
         /\ UNCHANGED close_status
         /\ UNCHANGED << nonce_ctr, watchdogs, last_request, outstanding >>
    ELSE /\ nonce_ctr < MaxNonce
         /\ sessions' = [sessions EXCEPT ![s] =
                [sess EXCEPT !.attesting = TRUE,
                             !.pending_nonce = FreshNonce,
                             !.pending_sent_at = now]]
         /\ nonce_ctr' = FreshNonce
         /\ UNCHANGED close_status
         /\ watchdogs' = watchdogs \cup
                {[sess |-> s, nonce |-> FreshNonce, due |-> now + ATTEST_DEADLINE_SEC]}
         /\ last_request' = [last_request EXCEPT ![s] =
                [nonce |-> FreshNonce, reason |-> reason]]
         /\ outstanding' = [outstanding EXCEPT ![s] = @ \cup {FreshNonce}]

\* _handle_disconnect and the pop that follows it in handle_ws, for the
\* Session object sess, on the registry reg, the nodes nd, the events ev
DisconnectRaises(reg, sess) ==
    sess.app_name # None /\ sess.app_name \notin DOMAIN reg

DisconnectActs(reg, sess) ==
    sess.app_name # None /\ sess.app_name \in DOMAIN reg

Disconnect_apps(reg, sess) ==
    IF DisconnectActs(reg, sess)
    THEN mark_health(mark_connection(reg, sess.app_name, FALSE, sess.tunnel_id),
                     sess.app_name, "fail", now)
    ELSE reg

Disconnect_events(reg, ev, sess) ==
    IF DisconnectActs(reg, sess) /\ sess.agent_id # None
    THEN record_node_event(ev, sess.agent_id, "health_miss", "disconnect", now)
    ELSE ev

Disconnect_nodes(reg, nd, sess) ==
    IF DisconnectActs(reg, sess) /\ sess.agent_id # None
    THEN Ledger_mark_health(nd, sess.agent_id, "fail")
    ELSE nd

Disconnect_by_app(reg, s, sess) ==
    IF /\ DisconnectActs(reg, sess)
       /\ sess.app_name \in DOMAIN sessions_by_app
       /\ sessions_by_app[sess.app_name] = s
    THEN [a \in DOMAIN sessions_by_app \ {sess.app_name} |-> sessions_by_app[a]]
    ELSE sessions_by_app

Disconnect_tbl(reg, s, sess) ==
    IF DisconnectRaises(reg, sess) THEN sessions_tbl ELSE sessions_tbl \ {s}

\* An exception leaves a frame handler: the async-for of handle_ws is left
\* through the finally block, in the same step.  The handler is gone but
\* ws.close() was never called.
Abort(s, reg, nd, ev) ==
    /\ sessions' = [sessions EXCEPT ![s].ws = "aborted"]
    /\ apps' = Disconnect_apps(reg, sessions[s])
    /\ nodes' = Disconnect_nodes(reg, nd, sessions[s])
    /\ node_events' = Disconnect_events(reg, ev, sessions[s])
    /\ sessions_by_app' = Disconnect_by_app(reg, s, sessions[s])
    /\ sessions_tbl' = Disconnect_tbl(reg, s, sessions[s])
    /\ UNCHANGED close_status

\* one more frame of an agent is handled
FrameHandled == frames < MaxFrames /\ frames' = frames + 1

\* ---------------------------------------------------------------- actions
\* handle_ws up to the async-for: the socket is accepted
Connect(s) ==
    /\ sessions[s].ws = "none"
    /\ \A t \in Sessions : t < s => sessions[t].ws # "none"
    /\ sessions' = [sessions EXCEPT ![s].ws = "open"]
    /\ sessions_tbl' = sessions_tbl \cup {s}
    /\ UNCHANGED close_status
    /\ UNCHANGED << now, sessions_by_app, apps, nodes, node_events,
                    allowlist_cache, nonce_ctr, watchdogs, loops, hw_due, reqs,
                    last_request, outstanding, accepted >>
    /\ UNCHANGED frames

\* _handle_ws_message: a frame that is not JSON or has an unknown type
RecvInvalid(s) ==
    /\ sessions[s].ws = "open"
    /\ UNCHANGED vars

\* _handle_register, lines 162-167: the frame is refused
RegisterRefused(s) ==
    /\ sessions[s].ws = "open"
    /\ UNCHANGED vars

\* the Session object after lines 169-174
Identified(s, id) ==
    [sessions[s] EXCEPT !.repo = id.repo, !.release_tag = id.release_tag,
                        !.app_name = id.app_name, !.agent_id = id.agent_id,
                        !.network = id.network,
                        !.tunnel_id = << id.app_name, FreshTunnel >>]

\* _handle_register, lines 169-199: the RA-TLS check of the peer against the
\* allowlist fails (handle_ws has verified the peer's certificate, so
\* ratls_result is there and verified).
\*   allowlist_fetch_failed - the allowlist is not cached and cannot be fetched
\*   ratls_mismatch         - the peer's quote does not match the allowlist
RegisterRatlsFails(s) ==
    /\ sessions[s].ws = "open"
    /\ RATLS_ENABLED /\ RATLS_REQUIRE_CLIENT_CERT
    /\ \E id \in Identities, why \in {"allowlist_fetch_failed", "ratls_mismatch"} :
          LET hit == CacheHit(allowlist_cache, id.repo, id.release_tag, now)
              cache1 == CacheAfterGet(allowlist_cache, id.repo, id.release_tag, now)
          IN  /\ id.network \in allowed_networks
              /\ why = "allowlist_fetch_failed" => ~hit
              /\ sessions' = [sessions EXCEPT
                     ![s] = [Identified(s, id) EXCEPT !.ws = "closing"]]
              /\ nodes' = ensure_node(nodes, id.agent_id)
              /\ allowlist_cache' =
                     IF hit \/ why = "allowlist_fetch_failed" THEN cache1
                     ELSE CachePut(cache1, id.repo, id.release_tag, now)
              /\ close_status' = [close_status EXCEPT ![s] = why]
    /\ UNCHANGED << now, sessions_tbl, sessions_by_app, apps, node_events,
                    nonce_ctr, watchdogs, loops, hw_due, reqs, last_request,
                    outstanding, accepted >>
    /\ FrameHandled

\* _handle_register, lines 169-201: the frame is accepted and an attestation
\* round is asked for
Register(s) ==
    /\ sessions[s].ws = "open"
    /\ \E id \in Identities :
          LET hit == CacheHit(allowlist_cache, id.repo, id.release_tag, now)
              cache1 == CacheAfterGet(allowlist_cache, id.repo, id.release_tag, now)
          IN  /\ id.network \in allowed_networks
              /\ nodes' = ensure_node(nodes, id.agent_id)
              /\ allowlist_cache' =
                     IF ~(RATLS_ENABLED /\ RATLS_REQUIRE_CLIENT_CERT) THEN allowlist_cache
                     ELSE IF hit THEN cache1
                     ELSE CachePut(cache1, id.repo, id.release_tag, now)
              /\ SendAttestRequest(s, Identified(s, id), "register")
    /\ UNCHANGED << now, sessions_tbl, sessions_by_app, apps, node_events,
                    loops, hw_due, reqs, accepted >>
    /\ FrameHandled

\* _verify_session_attestation, lines 317-326: the allowlist of the session
\* is in the cache, or it is fetched (fetch_ok) and put there
AllowlistKnown(sess, fetch_ok) ==
    CacheHit(allowlist_cache, sess.repo, sess.release_tag, now) \/ fetch_ok

CacheAfterLookup(sess, fetch_ok) ==
    LET hit == CacheHit(allowlist_cache, sess.repo, sess.release_tag, now)
        cache1 == CacheAfterGet(allowlist_cache, sess.repo, sess.release_tag, now)
    IN  IF hit \/ ~fetch_ok THEN cache1
        ELSE CachePut(cache1, sess.repo, sess.release_tag, now)

\* _verify_session_attestation, lines 325-326
SessionVerdict(sess, att) ==
    verify_attestation(att, sess.network \in sealed_networks)

\* the attest_response reaches the verification (lines 204-215 passed)
ResponseInTime(s, nonce) ==
    /\ sessions[s].ws = "open"
    /\ ~NoRoundPending(sessions[s])
    /\ ~NonceMismatch(sessions[s], nonce)
    /\ ~ResponseLate(sessions[s], now)

\* _handle_attest_response, lines 204-206
AttestUnexpected(s) ==
    /\ sessions[s].ws = "open"
    /\ NoRoundPending(sessions[s])
    /\ UNCHANGED vars

\* _handle_attest_response, lines 207-210
AttestNonceMismatch(s) ==
    /\ sessions[s].ws = "open"
    /\ ~NoRoundPending(sessions[s])
    /\ \E nonce \in 0..nonce_ctr : NonceMismatch(sessions[s], nonce)
    /\ close_status' = [close_status EXCEPT ![s] = "nonce_mismatch"]
    /\ sessions' = [sessions EXCEPT ![s].ws = "closing"]
    /\ UNCHANGED << now, sessions_tbl, sessions_by_app, apps, nodes,
                    node_events, allowlist_cache, nonce_ctr, watchdogs, loops,
                    hw_due, reqs, last_request, outstanding, accepted >>
    /\ FrameHandled

\* _handle_attest_response, lines 212-215
AttestLate(s) ==
    /\ sessions[s].ws = "open"
    /\ ~NoRoundPending(sessions[s])
    /\ \E nonce \in 0..nonce_ctr : ~NonceMismatch(sessions[s], nonce)
    /\ ResponseLate(sessions[s], now)
    /\ close_status' = [close_status EXCEPT ![s] = "attestation_timeout"]
    /\ sessions' = [sessions EXCEPT ![s].ws = "closing"]
    /\ UNCHANGED << now, sessions_tbl, sessions_by_app, apps, nodes,
                    node_events, allowlist_cache, nonce_ctr, watchdogs, loops,
                    hw_due, reqs, last_request, outstanding, accepted >>
    /\ FrameHandled

\* lines 222-229 with 317-322: the allowlist cannot be fetched
AttestFetchFailed(s) ==
    /\ \E nonce \in 0..nonce_ctr : ResponseInTime(s, nonce)
    /\ ~AllowlistKnown(sessions[s], FALSE)
    /\ allowlist_cache' = CacheAfterLookup(sessions[s], FALSE)
    /\ nodes' = mark_attestation(nodes, sessions[s].agent_id, "invalid")
    /\ node_events' = record_node_event(node_events, sessions[s].agent_id,
                                        "attest_miss", "allowlist_fetch_failed", now)
    /\ close_status' = [close_status EXCEPT ![s] = "allowlist_fetch_failed"]
    /\ sessions' = [sessions EXCEPT ![s].ws = "closing"]
    /\ UNCHANGED << now, sessions_tbl, sessions_by_app, apps, nonce_ctr,
                    watchdogs, loops, hw_due, reqs, last_request, outstanding,
                    accepted >>
    /\ FrameHandled

\* the Registry after lines 330-337
Reject_apps(sess, result) ==
    mark_attested(
        Registry_register(apps, sess.app_name, sess.repo, sess.release_tag,
                          sess.network, sess.agent_id, now),
        sess.app_name, result.sealed, "invalid", now)

\* lines 222-229 with 327-341: the attestation does not verify
AttestRejected(s) ==
    LET sess == sessions[s] IN
    /\ \E nonce \in 0..nonce_ctr : ResponseInTime(s, nonce)
    /\ \E att \in Attestations, fetch_ok \in BOOLEAN :
          LET result == SessionVerdict(sess, att)
              ev1 == record_node_event(node_events, sess.agent_id,
                                       "attest_miss", result.reason, now)
          IN  /\ AllowlistKnown(sess, fetch_ok)
              /\ ~result.verified
              /\ ~RegisterRaises(apps, sess.app_name, sess.repo)
              /\ allowlist_cache' = CacheAfterLookup(sess, fetch_ok)
              /\ apps' = Reject_apps(sess, result)
              /\ nodes' = mark_attestation(nodes, sess.agent_id, "invalid")
              /\ node_events' = record_node_event(ev1, sess.agent_id,
                                                  "attest_miss", result.reason, now)
              /\ close_status' = [close_status EXCEPT ![s] = result.reason]
    /\ sessions' = [sessions EXCEPT ![s].ws = "closing"]
    /\ UNCHANGED << now, sessions_tbl, sessions_by_app, nonce_ctr,
                    watchdogs, loops, hw_due, reqs, last_request, outstanding,
                    accepted >>
    /\ FrameHandled

\* lines 231 and 330: Registry.register raises, the app name is bound to
\* another repo
AttestRaises(s) ==
    LET sess == sessions[s] IN
    /\ \E nonce \in 0..nonce_ctr : ResponseInTime(s, nonce)
    /\ \E fetch_ok \in BOOLEAN :
          /\ AllowlistKnown(sess, fetch_ok)
          /\ allowlist_cache' = CacheAfterLookup(sess, fetch_ok)
    /\ RegisterRaises(apps, sess.app_name, sess.repo)
    /\ Abort(s, apps, nodes, node_events)
    /\ UNCHANGED << now, nonce_ctr, watchdogs, loops, hw_due, reqs,
                    last_request, outstanding, accepted >>
    /\ FrameHandled

\* the Registry after lines 231-239
Admit_apps(sess, result) ==
    mark_connection(
        mark_attested(
            Registry_register(apps, sess.app_name, sess.repo, sess.release_tag,
                              sess.network, sess.agent_id, now),
            sess.app_name, result.sealed, "valid", now),
        sess.app_name, TRUE, sess.tunnel_id)

\* the Ledger nodes after lines 244-246
Admit_nodes(sess) ==
    Ledger_mark_health(mark_attestation(nodes, sess.agent_id, "valid"),
                       sess.agent_id, "pass")

\* _handle_attest_response, lines 231-250: the session is admitted
AttestAccepted(s) ==
    LET sess == sessions[s] IN
    /\ \E nonce \in 0..nonce_ctr, att \in Attestations, fetch_ok \in BOOLEAN :
          LET result == SessionVerdict(sess, att)
          IN  /\ ResponseInTime(s, nonce)
              /\ AllowlistKnown(sess, fetch_ok)
              /\ result.verified
              /\ ~RegisterRaises(apps, sess.app_name, sess.repo)
              /\ allowlist_cache' = CacheAfterLookup(sess, fetch_ok)
              /\ apps' = Admit_apps(sess, result)
              /\ accepted' = [accepted EXCEPT ![s] =
                     [nonce |-> nonce, sent |-> last_request[s].nonce,
                      verified |-> result.verified, app |-> sess.app_name,
                      admitted |-> accepted[s].admitted \cup {sess.app_name}]]
    /\ sessions_by_app' = (sess.app_name :> s) @@
           [a \in DOMAIN sessions_by_app \ {sess.app_name} |-> sessions_by_app[a]]
    /\ sessions' = [sessions EXCEPT ![s].pending_nonce = NoNonce,
                                    ![s].attesting = FALSE,
                                    ![s].registered = TRUE]
    /\ nodes' = Admit_nodes(sess)
    /\ UNCHANGED close_status
    /\ loops' = [loops EXCEPT ![s] = Append(@, now + ATTEST_INTERVAL_SEC)]
    /\ outstanding' = [outstanding EXCEPT ![s] = @ \ {sess.pending_nonce}]
    /\ UNCHANGED << now, sessions_tbl, node_events, nonce_ctr, watchdogs,
                    hw_due, reqs, last_request >>
    /\ FrameHandled


\* _handle_health, lines 253-255
HealthNotRegistered(s) ==
    /\ sessions[s].ws = "open"
    /\ ~sessions[s].registered
    /\ UNCHANGED vars

\* _handle_health, lines 256-258: any other status is a fail
HealthStatus(status) == IF status \in {"pass", "fail"} THEN status ELSE "fail"

\* _handle_health, lines 256-261
HandleHealth(s) ==
    LET sess == sessions[s] IN
    /\ sess.ws = "open"
    /\ sess.registered
    /\ sess.app_name \in DOMAIN apps
    /\ \E status \in {"pass", "fail", "degraded"} :
          /\ apps' = mark_health(apps, sess.app_name, HealthStatus(status), now)
          /\ nodes' = Ledger_mark_health(nodes, sess.agent_id, HealthStatus(status))
    /\ UNCHANGED close_status
    /\ UNCHANGED << now, sessions, sessions_tbl, sessions_by_app, node_events,
                    allowlist_cache, nonce_ctr, watchdogs, loops, hw_due, reqs,
                    last_request, outstanding, accepted >>
    /\ FrameHandled

\* _handle_health, line 259: Registry.mark_health raises KeyError, the
\* session names an app that has no record
HealthRaises(s) ==
    /\ sessions[s].ws = "open"
    /\ sessions[s].registered
    /\ sessions[s].app_name \notin DOMAIN apps
    /\ Abort(s, apps, nodes, node_events)
    /\ UNCHANGED << now, allowlist_cache, nonce_ctr, watchdogs, loops, hw_due,
                    reqs, last_request, outstanding, accepted >>
    /\ FrameHandled

\* a handler that completes the waiting future with that id of any session
PendingFutureOfAnySession(s, rid) ==
    rid # 0 /\ reqs[rid].state = "waiting"

\* _handle_proxy_response, lines 267-268: the future that
\* session.pending_proxy.pop(request_id) returns is there and not done
PendingFuture(s, rid) ==
    /\ rid \in sessions[s].pending_proxy
    /\ reqs[rid].state = "waiting" /\ reqs[rid].sess = s

\* _handle_proxy_response: rid = 0 is a frame without request_id; the
\* waiting proxy_request returns the agent's response
HandleProxyResponse(s) ==
    /\ sessions[s].ws = "open"
    /\ \E rid \in 0..MaxReq :
          /\ sessions' = [sessions EXCEPT ![s].pending_proxy = @ \ {rid}]
          /\ reqs' = IF PendingFuture(s, rid) THEN [reqs EXCEPT ![rid] = FreeSlot]
                     ELSE reqs
          /\ UNCHANGED close_status
    /\ UNCHANGED << now, sessions_tbl, sessions_by_app, apps, nodes,
                    node_events, allowlist_cache, nonce_ctr, watchdogs, loops,
                    hw_due, last_request, outstanding, accepted >>
    /\ FrameHandled

\* the peer closes the socket, or the transport fails: the async-for of
\* handle_ws ends
PeerClose(s) ==
    /\ sessions[s].ws = "open"
    /\ sessions' = [sessions EXCEPT ![s].ws = "closing"]
    /\ UNCHANGED close_status
    /\ UNCHANGED << now, sessions_tbl, sessions_by_app, apps, nodes,
                    node_events, allowlist_cache, nonce_ctr, watchdogs, loops,
                    hw_due, reqs, last_request, outstanding, accepted >>
    /\ UNCHANGED frames

\* handle_ws, lines 130-132: the finally block after the socket has closed
Disconnect(s) ==
    /\ sessions[s].ws = "closing"
    /\ sessions' = [sessions EXCEPT ![s].ws = "closed"]
    /\ apps' = Disconnect_apps(apps, sessions[s])
    /\ nodes' = Disconnect_nodes(apps, nodes, sessions[s])
    /\ node_events' = Disconnect_events(apps, node_events, sessions[s])
    /\ sessions_by_app' = Disconnect_by_app(apps, s, sessions[s])
    /\ sessions_tbl' = Disconnect_tbl(apps, s, sessions[s])
    /\ UNCHANGED close_status
    /\ UNCHANGED << now, allowlist_cache, nonce_ctr, watchdogs, loops, hw_due,
                    reqs, last_request, outstanding, accepted >>
    /\ UNCHANGED frames

\* _attestation_timeout: the task of round w wakes up
AttestationTimeout(w) ==
    LET s == w.sess
        sess == sessions[s]
    IN
    /\ w \in watchdogs
    /\ now >= w.due
    /\ watchdogs' = watchdogs \ {w}
    /\ IF StillPending(sess, w.nonce)
       THEN /\ node_events' = record_node_event(node_events, sess.agent_id,
                                                "attest_miss", "timeout", now)
            /\ nodes' = mark_attestation(nodes, sess.agent_id, "invalid")
            /\ IF SendRaises(s)
               THEN UNCHANGED sessions /\ UNCHANGED close_status
               ELSE /\ close_status' = [close_status EXCEPT ![s] = "attestation_timeout"]
                    /\ sessions' = [sessions EXCEPT ![s].ws = "closing"]
       ELSE UNCHANGED << node_events, nodes, sessions >> /\ UNCHANGED close_status
    /\ UNCHANGED << now, sessions_tbl, sessions_by_app, apps, allowlist_cache,
                    nonce_ctr, loops, hw_due, reqs, last_request, outstanding,
                    accepted >>
    /\ UNCHANGED frames

RemoveAt(seq, i) == SubSeq(seq, 1, i - 1) \o SubSeq(seq, i + 1, Len(seq))

\* _attest_loop: the i-th loop task of session s wakes up
AttestLoop(s, i) ==
    /\ i \in DOMAIN loops[s]
    /\ now >= loops[s][i]
    /\ IF WsClosed(s)
       THEN /\ loops' = [loops EXCEPT ![s] = RemoveAt(@, i)]
            /\ UNCHANGED close_status
            /\ UNCHANGED << sessions, nonce_ctr, watchdogs, last_request, outstanding >>
       ELSE IF SendRaises(s) /\ ~RoundInFlight(sessions[s])
       THEN \* the handler died without closing: send_json raises in
            \* _send_attest_request after line 277, the task ends
            /\ nonce_ctr < MaxNonce
            /\ sessions' = [sessions EXCEPT ![s].attesting = TRUE,
                                            ![s].pending_nonce = FreshNonce,
                                            ![s].pending_sent_at = now]
            /\ nonce_ctr' = FreshNonce
            /\ loops' = [loops EXCEPT ![s] = RemoveAt(@, i)]
            /\ UNCHANGED close_status
            /\ UNCHANGED << watchdogs, last_request, outstanding >>
       ELSE /\ SendAttestRequest(s, sessions[s], "periodic")
            /\ loops' = [loops EXCEPT ![s][i] = now + ATTEST_INTERVAL_SEC]
    /\ UNCHANGED << now, sessions_tbl, sessions_by_app, apps, nodes,
                    node_events, allowlist_cache, hw_due, reqs, accepted >>
    /\ UNCHANGED frames

\* Registry.list_apps: the records sorted by app name
AppOrder == << "demo", "other" >>

\* a watchdog that does not skip the records that are already fail
StaleAlsoWhenFail(rec, t) ==
    /\ rec.ws_connected
    /\ ~(t - (IF rec.last_health_at # NoTime THEN rec.last_health_at
              ELSE rec.registered_at) <= HEALTH_TIMEOUT_SEC)

\* health_watchdog, lines 304-310
Stale(rec, t) ==
    /\ rec.ws_connected
    /\ ~(t - (IF rec.last_health_at # NoTime THEN rec.last_health_at
              ELSE rec.registered_at) <= HEALTH_TIMEOUT_SEC)
    /\ rec.health_status # "fail"

\* health_watchdog, lines 303-314: the scan from the i-th record on, on
\* acc = [apps, nodes, events]
RECURSIVE WatchdogScan(_, _)
WatchdogScan(i, acc) ==
    IF i > Len(AppOrder) THEN acc
    ELSE LET a == AppOrder[i] IN
         IF a \in DOMAIN acc.apps /\ Stale(acc.apps[a], now)
         THEN WatchdogScan(i + 1,
                [apps |-> mark_health(acc.apps, a, "fail", now),
                 events |-> record_node_event(acc.events, acc.apps[a].agent_id,
                                              "health_miss", "timeout", now),
                 nodes |-> Ledger_mark_health(acc.nodes, acc.apps[a].agent_id, "fail")])
         ELSE WatchdogScan(i + 1, acc)

\* health_watchdog: one wake-up
HealthWatchdog ==
    /\ now >= hw_due
    /\ hw_due' = now + HEALTH_TIMEOUT_SEC
    /\ LET r == WatchdogScan(1, [apps |-> apps, nodes |-> nodes, events |-> node_events])
       IN  /\ apps' = r.apps
           /\ nodes' = r.nodes
           /\ node_events' = r.events
    /\ UNCHANGED close_status
    /\ UNCHANGED << now, sessions, sessions_tbl, sessions_by_app,
                    allowlist_cache, nonce_ctr, watchdogs, loops, reqs,
                    last_request, outstanding, accepted >>
    /\ UNCHANGED frames

\* a proxy_request that looks for the tunnel before it looks at the status
ProxyGateTunnelFirst(app) ==
    IF app \notin DOMAIN apps THEN "404"
    ELSE IF app \notin DOMAIN sessions_by_app \/ WsClosed(sessions_by_app[app]) THEN "503"
    ELSE IF ~status_payload(apps[app], now).allowed THEN "403"
    ELSE "send"

\* proxy_request, lines 365-374: the answer when no frame is sent
ProxyGate(app) ==
    IF app \notin DOMAIN apps THEN "404"
    ELSE IF ~status_payload(apps[app], now).allowed THEN "403"
    ELSE IF app \notin DOMAIN sessions_by_app \/ WsClosed(sessions_by_app[app]) THEN "503"
    ELSE "send"

\* proxy_request up to its wait_for: an HTTP client asks for app; the
\* request takes the first free slot r
ProxyRequest(app) ==
    /\ \E r \in ReqIds : reqs[r].state = "free"
    /\ LET r == CHOOSE r \in ReqIds :
                   reqs[r].state = "free" /\ \A q \in ReqIds : q < r => reqs[q].state # "free"
           gate == ProxyGate(app)
       IN  IF gate # "send"
           THEN /\ UNCHANGED close_status
                /\ UNCHANGED << sessions, reqs >>
           ELSE LET s == sessions_by_app[app] IN
                /\ sessions' = [sessions EXCEPT ![s].pending_proxy = @ \cup {r}]
                /\ IF SendRaises(s)
                   THEN /\ UNCHANGED close_status
                        /\ UNCHANGED reqs
                   ELSE /\ reqs' = [reqs EXCEPT ![r] = [state |-> "waiting", sess |-> s,
                                       app |-> app, due |-> now + ProxyTimeout]]
                        /\ UNCHANGED close_status
    /\ UNCHANGED << now, sessions_tbl, sessions_by_app, apps, nodes,
                    node_events, allowlist_cache, nonce_ctr, watchdogs, loops,
                    hw_due, last_request, outstanding, accepted >>
    /\ UNCHANGED frames

\* proxy_request, lines 394-396: wait_for times out
ProxyTimesOut(r) ==
    /\ reqs[r].state = "waiting"
    /\ now >= reqs[r].due
    /\ reqs' = [reqs EXCEPT ![r] = FreeSlot]
    /\ sessions' = [sessions EXCEPT ![reqs[r].sess].pending_proxy = @ \ {r}]
    /\ UNCHANGED close_status
    /\ UNCHANGED << now, sessions_tbl, sessions_by_app, apps, nodes,
                    node_events, allowlist_cache, nonce_ctr, watchdogs, loops,
                    hw_due, last_request, outstanding, accepted >>
    /\ UNCHANGED frames

\* the clock advances
Tick ==
    /\ now < MaxTime
    /\ now' = now + 1
    /\ UNCHANGED close_status
    /\ UNCHANGED << sessions, sessions_tbl, sessions_by_app, apps, nodes,
                    node_events, allowlist_cache, nonce_ctr, watchdogs, loops,
                    hw_due, reqs, last_request, outstanding, accepted >>
    /\ UNCHANGED frames

Next ==
    /\ UNCHANGED << tunnel_state, ledger_state, aux_state >>
    /\ \/ \E s \in Sessions : Connect(s)
       \/ \E s \in Sessions : RecvInvalid(s)
       \/ \E s \in Sessions : RegisterRefused(s)
       \/ \E s \in Sessions : RegisterRatlsFails(s)
       \/ \E s \in Sessions : Register(s)
       \/ \E s \in Sessions : AttestUnexpected(s)
       \/ \E s \in Sessions : AttestNonceMismatch(s)
       \/ \E s \in Sessions : AttestLate(s)
       \/ \E s \in Sessions : AttestFetchFailed(s)
       \/ \E s \in Sessions : AttestRejected(s)
       \/ \E s \in Sessions : AttestRaises(s)
       \/ \E s \in Sessions : AttestAccepted(s)
       \/ \E s \in Sessions : HealthNotRegistered(s)
       \/ \E s \in Sessions : HandleHealth(s)
       \/ \E s \in Sessions : HealthRaises(s)
       \/ \E s \in Sessions : HandleProxyResponse(s)
       \/ \E s \in Sessions : PeerClose(s)
       \/ \E s \in Sessions : Disconnect(s)
       \/ \E w \in watchdogs : AttestationTimeout(w)
       \/ \E s \in Sessions : \E i \in DOMAIN loops[s] : AttestLoop(s, i)
       \/ HealthWatchdog
       \/ \E a \in Apps : ProxyRequest(a)
       \/ \E r \in ReqIds : ProxyTimesOut(r)
       \/ Tick

Spec == Init /\ [][Next]_vars

\* ------------------------------------------------ two agents at one server
\* Two WebSocket sessions at the same control plane: the handlers are the
\* ones above, taken over the sessions of MaxPair connections.
MaxPair == 2
PairSessions == 1..MaxPair

PairInit ==
    /\ now = 0
    /\ sessions = [s \in PairSessions |-> NewSession]
    /\ sessions_tbl = {}
    /\ sessions_by_app = << >>
    /\ apps = << >>
    /\ nodes = << >>
    /\ node_events = EmptyBag
    /\ allowlist_cache = << >>
    /\ nonce_ctr = 0
    /\ frames = 0
    /\ watchdogs = {}
    /\ loops = [s \in PairSessions |-> << >>]
    /\ hw_due = HEALTH_TIMEOUT_SEC
    /\ reqs = [r \in ReqIds |-> FreeSlot]
    /\ close_status = [s \in PairSessions |-> None]
    /\ last_request = [s \in PairSessions |-> NoRequest]
    /\ outstanding = [s \in PairSessions |-> {}]
    /\ accepted = [s \in PairSessions |-> NoAccept]
    /\ OtherInit

PairNext ==
    /\ UNCHANGED << tunnel_state, ledger_state, aux_state >>
    /\ \/ \E s \in PairSessions : Connect(s)
       \/ \E s \in PairSessions : Register(s)
       \/ \E s \in PairSessions : AttestRejected(s)
       \/ \E s \in PairSessions : AttestAccepted(s)
       \/ \E s \in PairSessions : HandleHealth(s)
       \/ \E s \in PairSessions : HandleProxyResponse(s)
       \/ \E s \in PairSessions : PeerClose(s)
       \/ \E s \in PairSessions : Disconnect(s)
       \/ \E a \in Apps : ProxyRequest(a)
       \/ \E r \in ReqIds : ProxyTimesOut(r)
       \/ Tick

SpecPair == PairInit /\ [][PairNext]_vars

\* ------------------------------------------- the agent's end of a tunnel
\* One admitted session with its agent.  The control plane's side is
\* proxy_request, _send_attest_request, _handle_attest_response,
\* _handle_proxy_response and _attestation_timeout of server.py; the agent's
\* side is the message loop of run_client (tunnel_client.py) and of
\* tunnel_client_loop (agent.py), which are the same loop.  The WebSocket
\* delivers frames in order.  A frame the agent sends is handled by the
\* control plane in the step that sends it.

\* the tunnel is open: no attestation round has failed
TunnelOpen == round.state \in {"none", "pending", "answered"}

\* proxy_request, lines 376-393: an HTTP client asks for the app; the frame
\* is sent and the client waits
T_ProxyRequest(r) ==
    /\ TunnelOpen
    /\ client[r].state = "new"
    /\ client' = [client EXCEPT ![r] =
           [state |-> "waiting", due |-> now + ProxyTimeout, answer |-> 0]]
    /\ down' = Append(down, [type |-> "proxy_request", id |-> r])
    /\ UNCHANGED << now, cp_state, backend, round, health_at >>

\* _attest_loop with _send_attest_request: a periodic attest_request
T_AttestRequest ==
    /\ round.state \in {"none", "answered"}
    /\ now + ATTEST_DEADLINE_SEC <= MaxTime
    /\ round' = [state |-> "pending", due |-> now + ATTEST_DEADLINE_SEC]
    /\ down' = Append(down, [type |-> "attest_request", id |-> 0])
    /\ UNCHANGED << now, cp_state, backend, client, health_at >>

\* the agent's loop reads an attest_request (tunnel_client.py, lines 82-92)
\* and answers it at once; _handle_attest_response accepts the answer if the
\* round is pending and the deadline has not passed
T_AgentAttests ==
    /\ TunnelOpen
    /\ backend = 0
    /\ down # << >>
    /\ Head(down).type = "attest_request"
    /\ down' = Tail(down)
    /\ round' = IF round.state # "pending" THEN round
                ELSE IF now - (round.due - ATTEST_DEADLINE_SEC) > ATTEST_DEADLINE_SEC
                THEN [round EXCEPT !.state = "late"]
                ELSE [round EXCEPT !.state = "answered"]
    /\ UNCHANGED << now, cp_state, backend, client, health_at >>

\* the agent's loop reads a proxy_request (tunnel_client.py, lines 93-94)
\* and awaits proxy_request(session, payload): the backend call
T_AgentCallsBackend ==
    /\ TunnelOpen
    /\ backend = 0
    /\ down # << >>
    /\ Head(down).type = "proxy_request"
    /\ down' = Tail(down)
    /\ backend' = Head(down).id
    /\ UNCHANGED << now, cp_state, client, round, health_at >>

\* the backend answers (tunnel_client.py, lines 40-48 and 95-96): the agent
\* sends the proxy_response, which _handle_proxy_response gives to the
\* future of its request_id, and goes back to reading
T_BackendAnswers ==
    /\ TunnelOpen
    /\ backend # 0
    /\ backend' = 0
    /\ client' = IF client[backend].state = "waiting"
                 THEN [client EXCEPT ![backend].state = "answered",
                                     ![backend].answer = backend]
                 ELSE client
    /\ UNCHANGED << now, cp_state, down, round, health_at >>

\* proxy_request, lines 394-396: wait_for times out, the client gets 504
T_ProxyTimesOut(r) ==
    /\ client[r].state = "waiting"
    /\ now >= client[r].due
    /\ client' = [client EXCEPT ![r].state = "timeout"]
    /\ UNCHANGED << now, cp_state, down, backend, round, health_at >>

\* _attestation_timeout: the round is still pending at its deadline, the
\* socket is closed
T_AttestationTimeout ==
    /\ round.state = "pending"
    /\ now >= round.due
    /\ round' = [round EXCEPT !.state = "timeout"]
    /\ UNCHANGED << now, cp_state, down, backend, client, health_at >>

\* health_loop (tunnel_client.py, lines 51-56): a task of its own sends a
\* health frame
T_Health ==
    /\ TunnelOpen
    /\ health_at < now
    /\ health_at' = now
    /\ UNCHANGED << now, cp_state, down, backend, client, round >>

\* the clock advances; an agent whose loop awaits no backend call reads the
\* frames that have arrived before any time passes
T_Tick ==
    /\ now < MaxTime
    /\ (TunnelOpen /\ backend = 0) => down = << >>
    /\ now' = now + 1
    /\ UNCHANGED << cp_state, tunnel_state >>

TunnelNext ==
    /\ UNCHANGED << ledger_state, aux_state >>
    /\ \/ \E r \in TunnelReqs : T_ProxyRequest(r)
       \/ T_AttestRequest
       \/ T_AgentAttests
       \/ T_AgentCallsBackend
       \/ T_BackendAnswers
       \/ \E r \in TunnelReqs : T_ProxyTimesOut(r)
       \/ T_AttestationTimeout
       \/ T_Health
       \/ T_Tick

SpecTunnel == Init /\ [][TunnelNext]_vars

\* ============================================================ the Ledger
\* LedgerStore of ledger.py.  The tables the credit operations write are
\* handled together as a record db:
\*   accounts, ledger, credit_locks, usage, nodes, abuse_reports
\* An operation returns [db, err, ret]: the tables as its statements have
\* left them, the reason of the LedgerError it raised (or None), and what
\* it returns.
Db ==
    [ accounts |-> accounts, ledger |-> ledger, credit_locks |-> credit_locks,
      usage |-> usage, nodes |-> nodes, abuse_reports |-> abuse_reports ]

Ok(db, ret) == [db |-> db, err |-> None, ret |-> ret]
Raise(db, reason) == [db |-> db, err |-> reason, ret |-> << >>]

\* a connection that commits what the statements of a failed block wrote
with_db_commit_always(before, r) == r.db

\* `with self._lock, self._db:` - the sqlite3 connection as a context
\* manager commits when the block ends and rolls back when it raises
with_db(before, r) == IF r.err = None THEN r.db ELSE before

\* _ensure_account
ensure_account(db, account_id) ==
    IF account_id \in DOMAIN db.accounts THEN db
    ELSE [db EXCEPT !.accounts = (account_id :> 0) @@ @]

\* a balance that is set to the delta instead of raised by it
apply_balance_delta_overwrite(db, account_id, delta_cents) ==
    LET db1 == ensure_account(db, account_id)
        updated == delta_cents
    IN  IF updated < 0 THEN Raise(db1, "insufficient_funds")
        ELSE Ok([db1 EXCEPT !.accounts[account_id] = updated], << >>)

\* _apply_balance_delta
apply_balance_delta(db, account_id, delta_cents) ==
    LET db1 == ensure_account(db, account_id)
        updated == db1.accounts[account_id] + delta_cents
    IN  IF updated < 0 THEN Raise(db1, "insufficient_funds")
        ELSE Ok([db1 EXCEPT !.accounts[account_id] = updated], << >>)

\* a ledger that keeps no entry for an unlock
insert_ledger_entry_but_unlock(db, account_id, delta_cents, reason, ref_type, ref_id) ==
    IF reason = "unlock" THEN db
    ELSE [db EXCEPT !.ledger = @ (+) SetToBag({
            [ account_id |-> account_id, delta_cents |-> delta_cents,
              reason |-> reason, ref_type |-> ref_type, ref_id |-> ref_id ] })]

\* _insert_ledger_entry
insert_ledger_entry(db, account_id, delta_cents, reason, ref_type, ref_id) ==
    [db EXCEPT !.ledger = @ (+) SetToBag({
        [ account_id |-> account_id, delta_cents |-> delta_cents,
          reason |-> reason, ref_type |-> ref_type, ref_id |-> ref_id ] })]

\* Ledger.ensure_node on the whole store: a new node gets its account
ensure_node_db(db, node_id) ==
    IF node_id \in DOMAIN db.nodes THEN db
    ELSE ensure_account([db EXCEPT !.nodes = ensure_node(@, node_id)], node_id)

\* register_node
register_node(db, node_id, price, stake, allow_update) ==
    IF node_id \in DOMAIN db.nodes /\ ~allow_update THEN Raise(db, "node_exists")
    ELSE IF node_id \in DOMAIN db.nodes
    THEN Ok([db EXCEPT !.nodes[node_id].price_cents_per_vcpu_hour = price,
                       !.nodes[node_id].stake_amount_cents = stake], << >>)
    ELSE LET db1 == ensure_node_db(db, node_id)
         IN  Ok([db1 EXCEPT !.nodes[node_id].price_cents_per_vcpu_hour = price,
                            !.nodes[node_id].stake_amount_cents = stake], << >>)

\* purchase_credits
purchase_credits(db, account_id, amount_cents) ==
    IF amount_cents <= 0 THEN Raise(db, "invalid_amount")
    ELSE LET r == apply_balance_delta(ensure_account(db, account_id),
                                      account_id, amount_cents)
         IN  IF r.err # None THEN r
             ELSE Ok(insert_ledger_entry(r.db, account_id, amount_cents,
                                         "purchase", "purchase", 0),
                     << >>)

\* transfer_credits; transfer_id is the uuid of the transfer
transfer_credits(db, from_account, to_account, amount_cents, transfer_id) ==
    IF amount_cents <= 0 THEN Raise(db, "invalid_amount")
    ELSE LET r1 == apply_balance_delta(db, from_account, -amount_cents)
         IN  IF r1.err # None THEN r1
             ELSE LET db2 == insert_ledger_entry(r1.db, from_account, -amount_cents,
                                                 "transfer_out", "transfer", transfer_id)
                      r3 == apply_balance_delta(db2, to_account, amount_cents)
                  IN  IF r3.err # None THEN r3
                      ELSE Ok(insert_ledger_entry(r3.db, to_account, amount_cents,
                                                  "transfer_in", "transfer", transfer_id),
                              << >>)

\* a lock_credits that writes the lock and leaves the balance as it is
lock_credits_without_debit(db, account_id, usage_id, amount_cents, period, lock_id) ==
    LET r == apply_balance_delta(db, account_id, 0)
    IN  IF r.err # None THEN r
        ELSE Ok([r.db EXCEPT !.credit_locks = (lock_id :>
                   [ account_id |-> account_id, usage_id |-> usage_id,
                     amount_cents |-> amount_cents,
                     period_start |-> period[1], period_end |-> period[2],
                     status |-> "locked" ]) @@ @], << lock_id >>)

\* lock_credits; the lock gets the uuid lock_id
lock_credits(db, account_id, usage_id, amount_cents, period, lock_id) ==
    LET r == apply_balance_delta(db, account_id, -amount_cents)
    IN  IF r.err # None THEN r
        ELSE LET db2 == insert_ledger_entry(r.db, account_id, -amount_cents,
                                            "lock", "usage", usage_id)
             IN  Ok([db2 EXCEPT !.credit_locks = (lock_id :>
                        [ account_id |-> account_id, usage_id |-> usage_id,
                          amount_cents |-> amount_cents,
                          period_start |-> period[1], period_end |-> period[2],
                          status |-> "locked" ]) @@ @], << lock_id >>)

\* _release_lock
release_lock(db, lock_id, account_id, amount_cents, usage_id) ==
    LET r == apply_balance_delta(db, account_id, amount_cents)
    IN  IF r.err # None THEN r
        ELSE Ok([insert_ledger_entry(r.db, account_id, amount_cents,
                                     "unlock", "usage", usage_id)
                    EXCEPT !.credit_locks[lock_id].status = "released"], << >>)

\* a settlement that leaves the lock as it is
settle_lock_keeps_lock(db, lock_id, provider_id, amount_cents, usage_id) ==
    LET r == apply_balance_delta(db, provider_id, amount_cents)
    IN  IF r.err # None THEN r
        ELSE Ok(insert_ledger_entry(r.db, provider_id, amount_cents,
                                    "settlement", "usage", usage_id), << >>)

\* _settle_lock
settle_lock(db, lock_id, provider_id, amount_cents, usage_id) ==
    LET r == apply_balance_delta(db, provider_id, amount_cents)
    IN  IF r.err # None THEN r
        ELSE Ok([insert_ledger_entry(r.db, provider_id, amount_cents,
                                     "settlement", "usage", usage_id)
                    EXCEPT !.credit_locks[lock_id].status = "settled"], << >>)

\* report_usage, line 441: vcpu_hours * price quantized to a whole number of
\* cents with ROUND_HALF_UP; the hours are counted in half hours
UsageAmount(half_hours, price_cents) == (half_hours * price_cents + 1) \div 2

\* report_usage; usage_id is the uuid of the usage row (and of its lock)
report_usage(db, account_id, node_id, half_hours, period, usage_id) ==
    IF \/ node_id \notin DOMAIN db.nodes
       \/ db.nodes[node_id].price_cents_per_vcpu_hour = NullCents
    THEN Raise(db, "node_price_missing")
    ELSE LET price_cents == db.nodes[node_id].price_cents_per_vcpu_hour
             amount_cents == UsageAmount(half_hours, price_cents)
         IN  IF amount_cents <= 0 THEN Raise(db, "invalid_amount")
             ELSE LET r == lock_credits(ensure_account(db, account_id), account_id,
                                        usage_id, amount_cents, period, usage_id)
                  IN  IF r.err # None THEN r
                      ELSE Ok([r.db EXCEPT !.usage = (usage_id :>
                                 [ node_id |-> node_id, account_id |-> account_id,
                                   half_hours |-> half_hours,
                                   price_cents_per_vcpu_hour |-> price_cents,
                                   amount_cents |-> amount_cents,
                                   period_start |-> period[1], period_end |-> period[2],
                                   status |-> "locked", lock_id |-> r.ret[1] ]) @@ @],
                              << >>)

\* the reasons _eligible_for_settlement can give
AllReasons ==
    { "node_not_found", "node_inactive", "attestation_invalid", "health_fail",
      "stake_missing", "health_miss", "attest_miss", "abuse_authorized" }

\* _eligible_for_settlement, lines 479-490: the number of node events of the
\* type that lie in the window
EventsInWindow(ev, node_id, period, type) ==
    LET hits == { e \in BagToSet(ev) :
                    /\ e.node_id = node_id /\ e.event_type = type
                    /\ e.occurred_at >= period[1] /\ e.occurred_at <= period[2] }
    IN  BagCardinality([e \in hits |-> CopiesIn(e, ev)])

\* _eligible_for_settlement, lines 492-502: an authorized report overlaps
\* the window (a NULL bound is open)
AbuseAuthorized(db, node_id, period) ==
    \E rid \in DOMAIN db.abuse_reports :
        LET rep == db.abuse_reports[rid]
        IN  /\ rep.node_id = node_id /\ rep.status = "authorized"
            /\ (rep.period_start = NoTime \/ rep.period_start <= period[2])
            /\ (rep.period_end = NoTime \/ rep.period_end >= period[1])

\* an eligibility that does not look at the node events
eligible_without_events(db, ev, node_id, period) ==
    IF node_id \notin DOMAIN db.nodes THEN SetToBag({"node_not_found"})
    ELSE LET node == db.nodes[node_id]
             cnt == [ r \in AllReasons |->
                 CASE r = "node_inactive" -> IF node.status # "active" THEN 1 ELSE 0
                   [] r = "attestation_invalid" ->
                          IF node.attestation_status # "valid" THEN 1 ELSE 0
                   [] r = "health_fail" -> IF node.health_status # "pass" THEN 1 ELSE 0
                   [] r = "stake_missing" ->
                          IF node.stake_amount_cents = NullCents
                             \/ node.stake_amount_cents <= 0 THEN 1 ELSE 0
                   [] r = "abuse_authorized" ->
                          IF AbuseAuthorized(db, node_id, period) THEN 1 ELSE 0
                   [] OTHER -> 0 ]
         IN  [ r \in { x \in AllReasons : cnt[x] > 0 } |-> cnt[r] ]

\* _eligible_for_settlement: the reasons as a bag (the list of the code
\* without its order); the node is eligible when there is none
eligible_for_settlement(db, ev, node_id, period) ==
    IF node_id \notin DOMAIN db.nodes THEN SetToBag({"node_not_found"})
    ELSE LET node == db.nodes[node_id]
             cnt == [ r \in AllReasons |->
                 CASE r = "node_inactive" -> IF node.status # "active" THEN 1 ELSE 0
                   [] r = "attestation_invalid" ->
                          IF node.attestation_status # "valid" THEN 1 ELSE 0
                   [] r = "health_fail" -> IF node.health_status # "pass" THEN 1 ELSE 0
                   [] r = "stake_missing" ->
                          IF node.stake_amount_cents = NullCents
                             \/ node.stake_amount_cents <= 0 THEN 1 ELSE 0
                   [] r = "health_miss" ->
                          EventsInWindow(ev, node_id, period, "health_miss")
                   [] r = "attest_miss" ->
                          EventsInWindow(ev, node_id, period, "attest_miss")
                   [] r = "abuse_authorized" ->
                          IF AbuseAuthorized(db, node_id, period) THEN 1 ELSE 0
                   [] OTHER -> 0 ]
         IN  [ r \in { x \in AllReasons : cnt[x] > 0 } |-> cnt[r] ]

\* a query that takes the usages of the window whatever their status
LockedUsagesOfAnyStatus(db, node_id, period) ==
    { u \in DOMAIN db.usage :
        /\ db.usage[u].node_id = node_id
        /\ db.usage[u].period_start = period[1]
        /\ db.usage[u].period_end = period[2] }

\* settle_period, lines 509-515: the locked usages of the node in the exact
\* window
LockedUsages(db, node_id, period) ==
    { u \in DOMAIN db.usage :
        /\ db.usage[u].node_id = node_id
        /\ db.usage[u].period_start = period[1]
        /\ db.usage[u].period_end = period[2]
        /\ db.usage[u].status = "locked" }

\* settle_period, lines 518-530: the loop over the usages
RECURSIVE settle_usages(_, _, _, _)
settle_usages(db, ids, eligible, node_id) ==
    IF ids = {} THEN Ok(db, << >>)
    ELSE LET u == CHOOSE x \in ids : \A y \in ids : x <= y
             row == db.usage[u]
             r == IF eligible
                  THEN settle_lock(db, row.lock_id, node_id, row.amount_cents, u)
                  ELSE release_lock(db, row.lock_id, row.account_id,
                                    row.amount_cents, u)
         IN  IF r.err # None THEN r
             ELSE settle_usages(
                    [r.db EXCEPT !.usage[u].status =
                        IF eligible THEN "settled" ELSE "failed"],
                    ids \ {u}, eligible, node_id)

\* settle_period; it returns eligible, reasons, settled, failed
settle_period(db, ev, node_id, period) ==
    LET reasons == eligible_for_settlement(db, ev, node_id, period)
        eligible == reasons = EmptyBag
        usages == LockedUsages(db, node_id, period)
        r == settle_usages(db, usages, eligible, node_id)
    IN  IF r.err # None THEN r
        ELSE Ok(r.db, [ node_id |-> node_id, period |-> period,
                        eligible |-> eligible, reasons |-> reasons,
                        settled |-> IF eligible THEN Cardinality(usages) ELSE 0,
                        failed |-> IF eligible THEN 0 ELSE Cardinality(usages) ])

\* file_abuse_report; report_id is the uuid of the report
file_abuse_report(db, node_id, period_start, period_end, report_id) ==
    Ok([ensure_node_db(db, node_id) EXCEPT !.abuse_reports = (report_id :>
          [ node_id |-> node_id, period_start |-> period_start,
            period_end |-> period_end, status |-> "pending" ]) @@ @],
       << >>)

\* authorize_abuse_report
authorize_abuse_report(db, report_id, action) ==
    IF action \notin {"authorize", "deny"} THEN Raise(db, "invalid_action")
    ELSE IF report_id \notin DOMAIN db.abuse_reports
    THEN Raise(db, "report_not_found")
    ELSE Ok([db EXCEPT !.abuse_reports[report_id].status =
                IF action = "authorize" THEN "authorized" ELSE "denied"],
            << >>)

\* ------------------------------------------------ calls of the Ledger
\* the state of the control plane that the Ledger does not hold
cp_other == << sessions, sessions_tbl, sessions_by_app, apps, allowlist_cache,
               nonce_ctr, frames, watchdogs, loops, hw_due, reqs, close_status,
               last_request, outstanding, accepted >>

\* the tables after a block of statements
StoreBecomes(db) ==
    /\ accounts' = db.accounts
    /\ ledger' = db.ledger
    /\ credit_locks' = db.credit_locks
    /\ usage' = db.usage
    /\ nodes' = db.nodes
    /\ abuse_reports' = db.abuse_reports

\* one call of the credit and admin API: the block runs on the connection,
\* the caller sees what it returned or raised
Called(op, r) ==
    /\ calls' = calls + 1
    /\ StoreBecomes(with_db(Db, r))
    /\ last_call' = [op |-> op, err |-> r.err, ret |-> r.ret]
    /\ UNCHANGED << now, cp_other, node_events, tunnel_state, agents >>

\* uuid4 of a new usage row, transfer or report
FreshUsage == Cardinality(DOMAIN usage) + 1
FreshTransfer ==
    Cardinality({ e \in BagToSet(ledger) : e.reason = "transfer_out" }) + 1
FreshReport == Cardinality(DOMAIN abuse_reports) + 1

L_register_node ==
    /\ calls < MaxCalls
    /\ \E n \in NodeIds, p \in Pricings, allow_update \in BOOLEAN :
          Called("register_node", register_node(Db, n, p.price, p.stake, allow_update))

L_purchase_credits ==
    /\ calls < MaxCalls
    /\ \E a \in AccountIds, c \in Amounts :
          Called("purchase_credits", purchase_credits(Db, a, c))

L_transfer_credits ==
    /\ calls < MaxCalls
    /\ \E a \in AccountIds, b \in AccountIds, c \in Amounts :
          Called("transfer_credits", transfer_credits(Db, a, b, c, FreshTransfer))

L_report_usage ==
    /\ calls < MaxCalls
    /\ FreshUsage <= MaxUsage
    /\ \E a \in AccountIds, n \in NodeIds, h \in HalfHours, p \in Periods :
          Called("report_usage", report_usage(Db, a, n, h, p, FreshUsage))

L_settle_period ==
    /\ calls < MaxCalls
    /\ \E n \in NodeIds, p \in Periods :
          Called("settle_period", settle_period(Db, node_events, n, p))

L_file_abuse_report ==
    /\ calls < MaxCalls
    /\ FreshReport <= MaxReports
    /\ \E n \in AgentNodes, p \in Periods \cup { << NoTime, NoTime >> } :
          Called("file_abuse_report", file_abuse_report(Db, n, p[1], p[2], FreshReport))

L_authorize_abuse_report ==
    /\ calls < MaxCalls
    /\ \E rid \in 1..MaxReports, action \in {"authorize", "deny", "hold"} :
          Called("authorize_abuse_report", authorize_abuse_report(Db, rid, action))

\* ------------------------- the control plane as a caller of the Ledger
\* What the handlers of a node's tunnel session do to the Ledger.  A session
\* is  none -> active -> closing -> closed;  pending: an attestation round
\* of the live session waits for its response;  orphan: a round of a closed
\* session whose _attestation_timeout task still sleeps;  missed: a round of
\* a live session has timed out at some time.
AgentStep(n, a, nd, ev) ==
    /\ agents' = [agents EXCEPT ![n] = a]
    /\ nodes' = nd
    /\ accounts' = IF n \in DOMAIN nodes THEN accounts
                   ELSE ensure_account(Db, n).accounts
    /\ node_events' = ev
    /\ UNCHANGED << now, cp_other, tunnel_state, ledger, credit_locks, usage,
                    abuse_reports, calls, last_call >>

\* _handle_register line 175 and _handle_attest_response lines 244-246: a
\* new session registers and is admitted, or the live session answers its
\* periodic round
L_Admitted(n) ==
    /\ \/ agents[n].conn \in {"none", "closed"}
       \/ agents[n].conn = "active" /\ agents[n].pending
    /\ AgentStep(n, [agents[n] EXCEPT !.conn = "active", !.pending = FALSE],
                 Ledger_mark_health(mark_attestation(nodes, n, "valid"), n, "pass"),
                 node_events)

\* _attest_loop and _send_attest_request: a periodic round is asked for
L_AttestRequest(n) ==
    /\ agents[n].conn = "active" /\ ~agents[n].pending
    /\ AgentStep(n, [agents[n] EXCEPT !.pending = TRUE], nodes, node_events)

\* _handle_disconnect, lines 349-351; the round in flight stays pending on
\* the closed session
L_Disconnect(n) ==
    /\ agents[n].conn \in {"active", "closing"}
    /\ BagCardinality(node_events) < MaxEvents
    /\ AgentStep(n, [agents[n] EXCEPT !.conn = "closed", !.pending = FALSE,
                                      !.orphan = @ \/ agents[n].pending],
                 Ledger_mark_health(nodes, n, "fail"),
                 record_node_event(node_events, n, "health_miss", "disconnect", now))

\* _attestation_timeout, lines 285-290: the round of the live session, or
\* of a closed one, is still pending at its deadline
L_AttestationTimeout(n) ==
    /\ agents[n].pending \/ agents[n].orphan
    /\ BagCardinality(node_events) < MaxEvents
    /\ \E live \in BOOLEAN :
          /\ live => agents[n].pending
          /\ ~live => agents[n].orphan
          /\ AgentStep(n, IF live
                          THEN [agents[n] EXCEPT !.pending = FALSE, !.missed = TRUE,
                                                 !.conn = "closing"]
                          ELSE [agents[n] EXCEPT !.orphan = FALSE],
                       mark_attestation(nodes, n, "invalid"),
                       record_node_event(node_events, n, "attest_miss", "timeout", now))

L_Tick ==
    /\ now < MaxTime
    /\ now' = now + 1
    /\ UNCHANGED << cp_state, tunnel_state, ledger_state >>

LedgerNext ==
    /\ UNCHANGED aux_state
    /\ \/ L_register_node
       \/ L_purchase_credits
       \/ L_transfer_credits
       \/ L_report_usage
       \/ L_settle_period
       \/ L_file_abuse_report
       \/ L_authorize_abuse_report
       \/ \E n \in AgentNodes : L_Admitted(n)
       \/ \E n \in AgentNodes : L_AttestRequest(n)
       \/ \E n \in AgentNodes : L_Disconnect(n)
       \/ \E n \in AgentNodes : L_AttestationTimeout(n)
       \/ L_Tick

SpecLedger == Init /\ [][LedgerNext]_vars

\* ========================================================== the Registry
\* Registry of registry.py called on its own: register, mark_attested,
\* mark_health and mark_connection in any order, on the clock.
RegistryCalled ==
    /\ reg_calls < MaxRegCalls
    /\ reg_calls' = reg_calls + 1
    /\ UNCHANGED << now, sessions, sessions_tbl, sessions_by_app, nodes,
                    node_events, allowlist_cache, nonce_ctr, frames, watchdogs,
                    loops, hw_due, reqs, close_status, last_request, outstanding,
                    accepted, tunnel_state, ledger_state, beside_registry >>

\* Registry.register
R_register ==
    /\ RegistryCalled
    /\ \E id \in Identities :
          LET raised == RegisterRaises(apps, id.app_name, id.repo)
          IN  /\ apps' = IF raised THEN apps
                         ELSE Registry_register(apps, id.app_name, id.repo,
                                  id.release_tag, id.network, id.agent_id, now)
              /\ reg_call' = [ app_name |-> id.app_name, repo |-> id.repo,
                               release_tag |-> id.release_tag,
                               network |-> id.network, agent_id |-> id.agent_id,
                               raised |-> raised, at |-> now,
                               seq |-> reg_calls + 1 ]

\* Registry.mark_attested
R_mark_attested ==
    /\ RegistryCalled
    /\ \E a \in DOMAIN apps, sealed \in BOOLEAN :
          apps' = mark_attested(apps, a, sealed,
                                IF sealed THEN "valid" ELSE "invalid", now)
    /\ UNCHANGED reg_call

\* Registry.mark_health
R_mark_health ==
    /\ RegistryCalled
    /\ \E a \in DOMAIN apps, status \in {"pass", "fail"} :
          apps' = mark_health(apps, a, status, now)
    /\ UNCHANGED reg_call

\* Registry.mark_connection
R_mark_connection ==
    /\ RegistryCalled
    /\ \E a \in DOMAIN apps, connected \in BOOLEAN :
          apps' = mark_connection(apps, a, connected, << a, 1 >>)
    /\ UNCHANGED reg_call

R_Tick ==
    /\ now < MaxTime
    /\ now' = now + 1
    /\ UNCHANGED << cp_state, tunnel_state, ledger_state, aux_state >>

RegistryNext ==
    \/ R_register
    \/ R_mark_attested
    \/ R_mark_health
    \/ R_mark_connection
    \/ R_Tick

SpecRegistry == Init /\ [][RegistryNext]_vars

\* ------------------------------------------- credits bought in two calls
\* A store in which an account has bought b cents so far (b = 0: the
\* account has no row yet).
StoreWith(a, b) ==
    [ accounts |-> IF b = 0 THEN << >> ELSE (a :> b),
      ledger |-> IF b = 0 THEN EmptyBag
                 ELSE SetToBag({[ account_id |-> a, delta_cents |-> b,
                                  reason |-> "purchase", ref_type |-> "purchase",
                                  ref_id |-> 0 ]}),
      credit_locks |-> << >>, usage |-> << >>, nodes |-> << >>,
      abuse_reports |-> << >> ]

PurchaseStep(p) ==
    /\ purchases' = p
    /\ UNCHANGED << now, cp_state, tunnel_state, ledger_state, beside_purchases >>

\* two copies of a store, an account and two positive amounts
P_Start ==
    /\ purchases.phase = "none"
    /\ \E a \in AccountIds, b \in 0..MaxBalance, x \in 1..MaxPurchase,
          y \in 1..MaxPurchase :
          PurchaseStep([ phase |-> "start", account_id |-> a, x |-> x, y |-> y,
                         begin |-> StoreWith(a, b), two |-> StoreWith(a, b),
                         one |-> StoreWith(a, b), single |-> FALSE ])

\* purchase_credits(a, x) on the first copy
P_First ==
    /\ purchases.phase = "start"
    /\ PurchaseStep([purchases EXCEPT !.phase = "first",
          !.two = with_db(@, purchase_credits(@, purchases.account_id, purchases.x))])

\* purchase_credits(a, y) on the first copy
P_Second ==
    /\ purchases.phase = "first"
    /\ PurchaseStep([purchases EXCEPT !.phase = "second",
          !.two = with_db(@, purchase_credits(@, purchases.account_id, purchases.y))])

\* purchase_credits(a, x + y) on the second copy
P_Single ==
    /\ purchases.phase # "none" /\ ~purchases.single
    /\ PurchaseStep([purchases EXCEPT !.single = TRUE,
          !.one = with_db(@, purchase_credits(@, purchases.account_id,
                                              purchases.x + purchases.y))])

PurchaseNext == P_Start \/ P_First \/ P_Second \/ P_Single

SpecPurchase == Init /\ [][PurchaseNext]_vars

\* --------------------------------------------- POST /v1/usage/report
\* bool(value) of a JSON value, as all([...]) of the handler takes it
Truthy(v) ==
    CASE v.json = "null" -> FALSE
      [] v.json = "number" -> v.half_hours # 0
      [] OTHER -> ~v.empty

\* parse_vcpu_hours
parse_vcpu_hours(v) ==
    IF v.json = "null" THEN [err |-> "missing_vcpu_hours", half_hours |-> 0]
    ELSE IF ~v.numeric THEN [err |-> "invalid_vcpu_hours", half_hours |-> 0]
    ELSE IF v.half_hours <= 0 THEN [err |-> "invalid_vcpu_hours", half_hours |-> 0]
    ELSE [err |-> None, half_hours |-> v.half_hours]

\* the handler report_usage of server.py, lines 579-597, for an authorised
\* request with account_id, node_id and the period present: the store
\* afterwards, the HTTP status and the error of the response
handle_report_usage(db, account_id, node_id, period, v, usage_id) ==
    IF ~Truthy(v) THEN [db |-> db, status |-> 400, error |-> "missing_fields"]
    ELSE LET hours == parse_vcpu_hours(v)
         IN  IF hours.err # None
             THEN [db |-> db, status |-> 400, error |-> hours.err]
             ELSE LET r == report_usage(db, account_id, node_id, hours.half_hours,
                                        period, usage_id)
                  IN  IF r.err # None
                      THEN [db |-> with_db(db, r), status |-> 400, error |-> r.err]
                      ELSE [db |-> with_db(db, r), status |-> 200, error |-> None]

\* a store with node n1 at the given pricing, in which account a has
\* bought b cents
StoreWithNode(a, b, pricing) ==
    with_db(StoreWith(a, b),
            register_node(StoreWith(a, b), "n1", pricing.price, pricing.stake, FALSE))

UsageReportStep(u) ==
    /\ usage_report' = u
    /\ UNCHANGED << now, cp_state, tunnel_state, ledger_state, beside_usage_report >>

\* the store the report meets
U_Store ==
    /\ usage_report.phase = "none"
    /\ \E a \in AccountIds, b \in 0..MaxBalance, pricing \in Pricings :
          UsageReportStep([ phase |-> "store", account_id |-> a,
                            db |-> StoreWithNode(a, b, pricing) ])

\* the report is posted and answered
U_Report ==
    /\ usage_report.phase = "store"
    /\ \E v \in VcpuHoursValues, p \in Periods :
          LET resp == handle_report_usage(usage_report.db, usage_report.account_id,
                                          "n1", p, v, 1)
          IN  UsageReportStep([ phase |-> "answered",
                                account_id |-> usage_report.account_id,
                                db |-> usage_report.db, vcpu_hours |-> v,
                                after |-> resp.db, status |-> resp.status,
                                error |-> resp.error ])

UsageReportNext == U_Store \/ U_Report

SpecUsageReport == Init /\ [][UsageReportNext]_vars

\* ------------------------------------------------------- authorisation
\* the tokens of a configuration
ADMIN_TOKEN == auth_check.admin
LAUNCHER_TOKEN == auth_check.launcher
UPTIME_TOKEN == auth_check.uptime

\* _bearer_token: the text after "Bearer ", "" for any other header
bearer_token(h) == IF h.scheme = "Bearer" THEN h.token ELSE ""

\* require_admin returns (TRUE) or raises HTTPUnauthorized (FALSE); the
\* header is compared whole with "Bearer <ADMIN_TOKEN>"
require_admin(h) ==
    IF ADMIN_TOKEN = Unset THEN TRUE
    ELSE h.scheme = "Bearer" /\ h.token = ADMIN_TOKEN

\* require_launcher
require_launcher(h) ==
    IF ADMIN_TOKEN # Unset /\ bearer_token(h) = ADMIN_TOKEN THEN TRUE
    ELSE IF LAUNCHER_TOKEN = Unset THEN TRUE
    ELSE bearer_token(h) = LAUNCHER_TOKEN

\* require_uptime
require_uptime(h) ==
    IF ADMIN_TOKEN # Unset /\ bearer_token(h) = ADMIN_TOKEN THEN TRUE
    ELSE IF UPTIME_TOKEN = Unset THEN TRUE
    ELSE bearer_token(h) = UPTIME_TOKEN

AuthStep(a) ==
    /\ auth_check' = a
    /\ UNCHANGED << now, cp_state, tunnel_state, ledger_state, beside_auth_check >>

\* the process starts with each token set or unset
A_Configure ==
    /\ auth_check.phase = "none"
    /\ \E adm \in {Unset, "adm"}, lch \in {Unset, "lch"}, upt \in {Unset, "upt"} :
          AuthStep([ phase |-> "configured", admin |-> adm, launcher |-> lch,
                     uptime |-> upt ])

\* a request reaches a guarded handler
A_Request ==
    /\ auth_check.phase = "configured"
    /\ \E h \in AuthHeaders, k \in PathKinds :
          AuthStep([ phase |-> "answered", admin |-> ADMIN_TOKEN,
                     launcher |-> LAUNCHER_TOKEN, uptime |-> UPTIME_TOKEN,
                     header |-> h, path |-> k,
                     authorised |-> CASE k = "admin" -> require_admin(h)
                                      [] k = "launcher" -> require_launcher(h)
                                      [] OTHER -> require_uptime(h) ])

AuthNext == A_Configure \/ A_Request

SpecAuth == Init /\ [][AuthNext]_vars

\* ---------------------------------------------------- agent deployment
\* os.path.abspath of a member joined to the destination: the components
\* left below the destination (rest) and the levels climbed above it (up)
RECURSIVE normpath(_, _)
normpath(m, acc) ==
    IF m = << >> THEN acc
    ELSE IF Head(m) = ".."
         THEN IF acc.rest # << >>
              THEN normpath(Tail(m), [acc EXCEPT !.rest = SubSeq(@, 1, Len(@) - 1)])
              ELSE normpath(Tail(m), [acc EXCEPT !.up = @ + 1])
         ELSE normpath(Tail(m), [acc EXCEPT !.rest = Append(@, Head(m))])

\* commonpath([dest, member_path]) != dest
Escapes(m) == normpath(m, [up |-> 0, rest |-> << >>]).up > 0

\* where extractall of tarfile puts a member that does not escape
TarTarget(m) == normpath(m, [up |-> 0, rest |-> << >>]).rest

\* where extractall of zipfile puts a member: the ".." components are dropped
ZipTarget(m) == SelectSeq(m, LAMBDA c : c # "..")

UnsafePath == "Bundle archive contains unsafe path"

\* safe_extract_tar: the error raised and the members written
safe_extract_tar(archive) ==
    IF \E m \in archive : Escapes(m)
    THEN [err |-> UnsafePath, files |-> {}]
    ELSE [err |-> None, files |-> { TarTarget(m) : m \in archive }]

\* safe_extract_zip
safe_extract_zip(archive) ==
    IF \E m \in archive : Escapes(m)
    THEN [err |-> UnsafePath, files |-> {}]
    ELSE [err |-> None, files |-> { ZipTarget(m) : m \in archive }]

\* materialize_inline_bundle: the archive file is saved in the directory,
\* then extracted beside it
materialize_inline_bundle(archive, bundle_format) ==
    CASE bundle_format = "tar.gz" ->
            LET x == safe_extract_tar(archive)
            IN  [err |-> x.err, extracted |-> TRUE, members |-> x.files,
                 bundle_dir |-> {BundleTarGz} \cup x.files]
      [] bundle_format = "zip" ->
            LET x == safe_extract_zip(archive)
            IN  [err |-> x.err, extracted |-> TRUE, members |-> x.files,
                 bundle_dir |-> {BundleZip} \cup x.files]
      [] OTHER -> [err |-> "Unsupported bundle_format", extracted |-> FALSE,
                   members |-> {}, bundle_dir |-> {}]

\* download_bundle_artifact: the download fails or the zip is saved and
\* extracted with ZipFile.extractall
download_bundle_artifact(archive, downloaded) ==
    IF ~downloaded
    THEN [err |-> "download failed", extracted |-> FALSE, members |-> {},
          bundle_dir |-> {}]
    ELSE [err |-> None, extracted |-> TRUE,
          members |-> { ZipTarget(m) : m \in archive },
          bundle_dir |-> {BundleZip} \cup { ZipTarget(m) : m \in archive }]

IsCompose(f) == f # << >> /\ f[Len(f)] \in {"docker-compose.yml", "docker-compose.yaml"}

\* the file names load_bundle does not read as extra files
Skipped(f) ==
    f[Len(f)] \in {"docker-compose.yml", "docker-compose.yaml", ".env.public",
                   "authorized_keys", "bundle.zip"}

MissingCompose == "Bundle missing docker-compose.yml"
MultipleCompose == "Bundle has multiple docker-compose files and no root compose"

\* a load_bundle that takes some compose file when there are several
load_bundle_any_compose(files) ==
    LET compose_paths == { f \in files : IsCompose(f) }
        extra == { f \in files : ~Skipped(f) }
    IN  IF compose_paths = {}
        THEN [err |-> MissingCompose, compose_path |-> << >>, extra_files |-> {}]
        ELSE IF BundleTarGz \in extra
             THEN [err |-> "UnicodeDecodeError", compose_path |-> << >>,
                   extra_files |-> {}]
             ELSE [err |-> None,
                   compose_path |-> CHOOSE f \in compose_paths : TRUE,
                   extra_files |-> extra]

\* load_bundle: the compose file at the root, else the only one; then every
\* other file is read as UTF-8 text, the gzip archive of an inline bundle
\* among them
load_bundle(files) ==
    LET compose_paths == { f \in files : IsCompose(f) }
        extra == { f \in files : ~Skipped(f) }
        root == IF ComposeYml \in files THEN ComposeYml
                ELSE << "docker-compose.yaml" >>
    IN  IF compose_paths = {}
        THEN [err |-> MissingCompose, compose_path |-> << >>, extra_files |-> {}]
        ELSE IF root \notin files /\ Cardinality(compose_paths) # 1
        THEN [err |-> MultipleCompose, compose_path |-> << >>, extra_files |-> {}]
        ELSE IF BundleTarGz \in extra
        THEN [err |-> "UnicodeDecodeError", compose_path |-> << >>,
              extra_files |-> {}]
        ELSE [err |-> None,
              compose_path |-> IF root \in files THEN root
                               ELSE CHOOSE f \in compose_paths : TRUE,
              extra_files |-> extra]

\* write_bundle_files: what is written under /opt/workload
write_bundle_files(compose_path, extra_files) == {compose_path} \cup extra_files

\* save_deployment: the status is written to the deployment's file
save_deployment(d) == [d EXCEPT !.saved = Append(@, d.status)]

\* an except clause that records the error and leaves the status
failed_without_status(d, err) ==
    save_deployment([d EXCEPT !.error = err, !.pc = "done"])

\* the except clause of run_deployment
failed(d, err) ==
    save_deployment([d EXCEPT !.status = "failed", !.error = err, !.pc = "done"])

DeployStep(d) ==
    /\ deployment' = d
    /\ UNCHANGED << now, cp_state, tunnel_state, ledger_state, beside_deployment >>

\* handle_deploy: a request without repo or without a bundle is answered
\* 400; any other is saved as pending, handed to a worker thread and
\* answered 202
D_handle_deploy ==
    /\ deployment.pc = "idle"
    /\ \E repo \in BOOLEAN, source \in BundleSources, archive \in SUBSET Members :
          IF ~repo \/ source = "nothing"
          THEN DeployStep([deployment EXCEPT !.response = 400])
          ELSE DeployStep(save_deployment(
                  [deployment EXCEPT !.pc = "pending", !.status = "pending",
                                     !.source = source, !.archive = archive,
                                     !.response = 202]))

\* run_deployment, lines 1262-1263
D_Deploying ==
    /\ deployment.pc = "pending"
    /\ DeployStep(save_deployment(
          [deployment EXCEPT !.status = "deploying", !.pc = "deploying"]))

\* run_deployment, lines 1265-1272: the bundle is materialised
D_Materialise ==
    /\ deployment.pc = "deploying"
    /\ \E downloaded \in BOOLEAN :
          LET r == IF deployment.source = "artifact"
                   THEN download_bundle_artifact(deployment.archive, downloaded)
                   ELSE materialize_inline_bundle(deployment.archive,
                                                  deployment.source)
              d == [deployment EXCEPT !.bundle_dir = r.bundle_dir,
                                      !.members_written = r.members,
                                      !.extracted = r.extracted]
          IN  IF r.err # None
              THEN DeployStep(failed(d, r.err))
              ELSE DeployStep([d EXCEPT !.pc = "materialised"])

\* run_deployment, line 1274
D_LoadBundle ==
    /\ deployment.pc = "materialised"
    /\ LET r == load_bundle(deployment.bundle_dir)
       IN  IF r.err # None
           THEN DeployStep(failed(deployment, r.err))
           ELSE DeployStep([deployment EXCEPT !.pc = "loaded",
                                              !.compose_path = r.compose_path,
                                              !.extra_files = r.extra_files])

\* run_deployment, lines 1281-1316: the files go under /opt/workload
D_WriteFiles ==
    /\ deployment.pc = "loaded"
    /\ DeployStep([deployment EXCEPT
                      !.pc = "written",
                      !.workload = write_bundle_files(deployment.compose_path,
                                                      deployment.extra_files)])

\* run_docker_compose: no compose command on the host, or the command runs
\* and returns zero or not
D_Compose ==
    /\ deployment.pc = "written"
    /\ \E outcome \in {"unavailable", "nonzero", "zero"} :
          CASE outcome = "unavailable" ->
                  DeployStep(failed(deployment,
                                    "docker compose is not available in the agent VM"))
            [] outcome = "nonzero" ->
                  DeployStep(failed([deployment EXCEPT !.compose_invoked = TRUE],
                                    "docker compose failed"))
            [] OTHER ->
                  DeployStep([deployment EXCEPT !.compose_invoked = TRUE,
                                                !.pc = "composed"])

\* run_deployment, lines 1320-1338: attestation, release (a failure of the
\* release is logged only), status complete
D_Complete ==
    /\ deployment.pc = "composed"
    /\ \E attested \in BOOLEAN, released \in BOOLEAN :
          IF ~attested
          THEN DeployStep(failed(deployment, "attestation failed"))
          ELSE DeployStep(save_deployment(
                  [deployment EXCEPT !.status = "complete", !.pc = "done",
                                     !.release_url = IF released THEN "url" ELSE ""]))

\* the worker thread
Worker ==
    D_Deploying \/ D_Materialise \/ D_LoadBundle \/ D_WriteFiles \/ D_Compose
        \/ D_Complete

DeployNext == D_handle_deploy \/ Worker

SpecDeploy == Init /\ [][DeployNext]_vars

\* the worker thread, once started, keeps running
SpecDeployFair == Init /\ [][DeployNext]_vars /\ WF_vars(Worker)

\* ------------------------------------------------------- verify_quote
TDX_TEE_TYPE == 129
MIN_QUOTE_LEN == 636

\* struct.unpack('<I', b): four bytes, least significant first
unpack_le32(b) == b[1] + 256 * b[2] + 65536 * b[3] + 16777216 * b[4]

\* a parse_quote that takes any tee_type
parse_quote_any_tee(q) ==
    IF q.len < 48 + 584 + 4 THEN "Quote too short"
    ELSE IF q.len < MIN_QUOTE_LEN + q.sig_len
    THEN "Quote truncated: missing signature data"
    ELSE IF q.sig_len < 128 THEN "Signature data too short"
    ELSE None

\* parse_quote: the message of the DCAPError it raises, None when it returns
parse_quote(q) ==
    IF q.len < 48 + 584 + 4 THEN "Quote too short"
    ELSE IF unpack_le32(q.tee) # TDX_TEE_TYPE THEN "Not a TDX quote"
    ELSE IF q.len < MIN_QUOTE_LEN + q.sig_len
    THEN "Quote truncated: missing signature data"
    ELSE IF q.sig_len < 128 THEN "Signature data too short"
    ELSE None

QuoteStep(q) ==
    /\ quote_check' = q
    /\ UNCHANGED << now, cp_state, tunnel_state, ledger_state, beside_quote_check >>

\* verify_quote is called with a base64 text and skip_pccs
Q_Call ==
    /\ quote_check.pc = "idle"
    /\ \E decodable \in BOOLEAN, len \in QuoteLengths, tee \in TeeTypeBytes,
          sig_len \in SigLengths, skip_pccs \in BOOLEAN :
          QuoteStep([quote_check EXCEPT !.pc = "called", !.decodable = decodable,
                                        !.len = len, !.tee = tee,
                                        !.sig_len = sig_len,
                                        !.skip_pccs = skip_pccs])

\* verify_quote, lines 336-349: decode, length, parse_quote
Q_Parse ==
    /\ quote_check.pc = "called"
    /\ LET err == IF ~quote_check.decodable THEN "Invalid quote encoding"
                  ELSE IF quote_check.len < MIN_QUOTE_LEN THEN "Quote too short"
                  ELSE parse_quote(quote_check)
       IN  IF err # None
           THEN QuoteStep([quote_check EXCEPT !.pc = "done", !.raised = err])
           ELSE QuoteStep([quote_check EXCEPT !.pc = "parsed"])

\* verify_quote, lines 355-391 and 412-415: certificates, chain, signature,
\* measurements; without PCCS the local result is final
Q_Local ==
    /\ quote_check.pc = "parsed"
    /\ \E chain_valid \in BOOLEAN, sig_valid \in BOOLEAN, mismatch \in BOOLEAN :
          LET q == [quote_check EXCEPT !.chain_valid = chain_valid,
                                       !.sig_valid = sig_valid]
          IN  IF mismatch
              THEN QuoteStep([q EXCEPT !.pc = "done", !.verified = FALSE,
                                       !.tcb_status = "measurement_mismatch"])
              ELSE IF ~q.skip_pccs /\ chain_valid /\ sig_valid
              THEN QuoteStep([q EXCEPT !.pc = "pccs"])
              ELSE QuoteStep([q EXCEPT
                     !.pc = "done", !.verified = chain_valid /\ sig_valid,
                     !.tcb_status = IF chain_valid /\ sig_valid THEN "local_only"
                                    ELSE "verification_failed"])

\* verify_quote, lines 392-411: the collateral service is asked
Q_Pccs ==
    /\ quote_check.pc = "pccs"
    /\ \E status \in {"verified", "verified_with_warnings", "partial", "error",
                      "failed"} :
          QuoteStep([quote_check EXCEPT
             !.pc = "done", !.pccs_calls = @ + 1,
             !.verified = CASE status \in {"verified", "verified_with_warnings"} -> TRUE
                            [] status \in {"partial", "error"} ->
                                  quote_check.chain_valid /\ quote_check.sig_valid
                            [] OTHER -> FALSE,
             !.tcb_status = CASE status \in {"verified", "verified_with_warnings"} -> "UpToDate"
                              [] status \in {"partial", "error"} -> "local_only"
                              [] OTHER -> "verification_failed"])

QuoteNext == Q_Call \/ Q_Parse \/ Q_Local \/ Q_Pccs

SpecQuote == Init /\ [][QuoteNext]_vars

\* ---------------------------------------------- get_latest_attestation
\* lines 61-70: what the body of a release yields: an attestation, nothing
\* (the loop goes on), or the AttributeError of None.find
parse_body(body) ==
    CASE body = "null" -> "AttributeError"
      [] body = "fenced" -> "attestation"
      [] OTHER -> "nothing"

\* the loop over the releases from index i on: what is returned (the index
\* of the release and whether its asset or its body was taken) or raised
RECURSIVE scan_releases(_, _, _)
scan_releases(releases, i, asset_ok) ==
    IF i > Len(releases)
    THEN [raised |-> "AttestationNotFoundError", index |-> 0, via |-> None]
    ELSE IF releases[i].asset
    THEN IF asset_ok THEN [raised |-> None, index |-> i, via |-> "asset"]
         ELSE [raised |-> "HTTPError", index |-> 0, via |-> None]
    ELSE LET b == parse_body(releases[i].body)
         IN  CASE b = "attestation" -> [raised |-> None, index |-> i, via |-> "body"]
               [] b = "AttributeError" ->
                     [raised |-> "AttributeError", index |-> 0, via |-> None]
               [] OTHER -> scan_releases(releases, i + 1, asset_ok)

\* get_latest_attestation: status_code is that of the releases request
get_latest_attestation(status_code, releases, asset_ok) ==
    IF status_code = 404
    THEN [raised |-> "AttestationNotFoundError", index |-> 0, via |-> None]
    ELSE IF status_code # 200
    THEN [raised |-> "HTTPError", index |-> 0, via |-> None]
    ELSE scan_releases(releases, 1, asset_ok)

ScanStep(r) ==
    /\ release_scan' = r
    /\ UNCHANGED << now, cp_state, tunnel_state, ledger_state, beside_release_scan >>

\* the repository as the API will answer for it
G_Repository ==
    /\ release_scan.pc = "idle"
    /\ \E status_code \in {200, 404, 500}, releases \in ReleaseLists,
          asset_ok \in BOOLEAN :
          ScanStep([ pc |-> "repository", status_code |-> status_code,
                     releases |-> releases, asset_ok |-> asset_ok ])

\* get_latest_attestation is called and ends
G_get_latest_attestation ==
    /\ release_scan.pc = "repository"
    /\ ScanStep([ pc |-> "done", status_code |-> release_scan.status_code,
                  releases |-> release_scan.releases,
                  asset_ok |-> release_scan.asset_ok,
                  outcome |-> get_latest_attestation(release_scan.status_code,
                                                     release_scan.releases,
                                                     release_scan.asset_ok) ])

GithubNext == G_Repository \/ G_get_latest_attestation

SpecGithub == Init /\ [][GithubNext]_vars

\* ================================================================ claims
\* the node events of agent id with the given type and detail, at any time
EventsOf(ev, id, type, detail) ==
    { e \in BagToSet(ev) :
        e.node_id = id /\ e.event_type = type /\ e.detail = detail }

\* how many node events of agent id with the given type and detail are
\* recorded at time t
CountAt(ev, id, type, detail, t) ==
    LET e == [ node_id |-> id, event_type |-> type, detail |-> detail,
               occurred_at |-> t ]
    IN  IF e \in BagToSet(ev) THEN CopiesIn(e, ev) ELSE 0

\* the disconnect of socket s has been handled (the finally block of
\* handle_ws has run)
Gone(s) == sessions[s].ws \in {"closed", "aborted"}

\* ---------------------------------------------------------------- C1
\* C1: a session is admitted only after an attest_response on that session
\* has passed verification, carrying the most recent nonce the server sent on
\* that session: the last response accepted on a session with registered set
\* was verified and carried the last nonce sent, and every AppRecord that is
\* connected was admitted by an accepted response.
C1_AdmittedOnlyAfterVerifiedResponse ==
    /\ \A s \in Sessions :
          sessions[s].registered =>
              /\ accepted[s].verified
              /\ accepted[s].nonce # NoNonce
              /\ accepted[s].nonce = accepted[s].sent
    /\ \A a \in DOMAIN apps :
          apps[a].ws_connected =>
              \E s \in Sessions : a \in accepted[s].admitted

\* a session is admitted on its second round (a nonce other than the first)
C1_Witness ==
    \E s \in Sessions :
        /\ sessions[s].registered
        /\ accepted[s].nonce = accepted[s].sent
        /\ accepted[s].nonce > 1
        /\ apps[accepted[s].app].ws_connected
        /\ apps[accepted[s].app].attestation_status = "valid"

\* ---------------------------------------------------------------- C2
\* C2: in every reachable state, for every AppRecord, allowed = true in
\* status_payload implies registration_state active, attestation_status
\* valid, health_status pass and ws_connected true.
C2_AllowedImplies ==
    \A a \in DOMAIN apps :
        status_payload(apps[a], now).allowed =>
            /\ registration_state(apps[a], now) = "active"
            /\ apps[a].attestation_status = "valid"
            /\ apps[a].health_status = "pass"
            /\ apps[a].ws_connected

\* an app is allowed, some time after its registration
C2_Witness ==
    \E a \in DOMAIN apps :
        /\ status_payload(apps[a], now).allowed
        /\ now > apps[a].registered_at

\* ---------------------------------------------------------------- C3
\* C3: attestation is single-flight per session: a session never has two
\* outstanding attest_request nonces, and no attest_request is sent on a
\* session while its pending_nonce is set.
C3_SingleFlight ==
    /\ [](\A s \in Sessions : Cardinality(outstanding[s]) <= 1)
    /\ [][\A s \in Sessions :
             last_request'[s] # last_request[s] =>
                 sessions[s].pending_nonce = NoNonce]_vars

\* a second round is in flight on a session whose first round was accepted
C3_Witness ==
    \E s \in Sessions :
        /\ accepted[s].nonce = 1
        /\ last_request[s].nonce = 2
        /\ outstanding[s] = {2}
        /\ sessions[s].pending_nonce = 2

\* ---------------------------------------------------------------- C4
\* C4: when a session registers an app on forge-1 and answers the
\* attest_request with a response that verifies, then right after the server
\* has processed that response, with no further frame, status_payload of the
\* app reports allowed = true with attestation_status valid, health_status
\* pass and ws_connected true.
C4_AllowedWithinOneRound ==
    [][\A s \in Sessions :
          (accepted'[s] # accepted[s] /\ last_request[s].reason = "register") =>
              LET rec == apps'[accepted'[s].app]
              IN  /\ status_payload(rec, now').allowed
                  /\ rec.attestation_status = "valid"
                  /\ rec.health_status = "pass"
                  /\ rec.ws_connected]_vars

\* ---------------------------------------------------------------- C5
\* the reasons with which _verify_session_attestation fails
VerificationFailures ==
    { "missing_quote_or_measurements", "measurement_mismatch", "sealed_required",
      "dcap_verification_failed", "allowlist_fetch_failed" }

\* an admitted session, still serving the app it was admitted for, answers
\* a periodic attest_request and the response fails verification in this step
FailsPeriodicAttestation(s) ==
    /\ sessions[s].registered
    /\ sessions[s].ws = "open"
    /\ sessions[s].app_name = accepted[s].app
    /\ sessions[s].pending_nonce # NoNonce
    /\ last_request[s] = [nonce |-> sessions[s].pending_nonce, reason |-> "periodic"]
    /\ close_status'[s] \in VerificationFailures
    /\ sessions' = [sessions EXCEPT ![s].ws = "closing"]

\* C5: when an admitted session answers a periodic attest_request with a
\* response that fails verification, the session is closed, the ledger node
\* is marked attestation invalid, an attest_miss event with the reason is
\* recorded, and the app's AppRecord is not allowed from that point on.
C5_FailedPeriodicAttestation ==
    [][\A s \in Sessions :
          FailsPeriodicAttestation(s) =>
              LET id == sessions[s].agent_id
                  why == close_status'[s]
              IN  /\ nodes'[id].attestation_status = "invalid"
                  /\ CountAt(node_events', id, "attest_miss", why, now)
                         > CountAt(node_events, id, "attest_miss", why, now)
                  /\ ~status_payload(apps'[accepted[s].app], now').allowed]_vars

\* ---------------------------------------------------------------- C6
\* C6: when the deadline watchdog of a round wakes up: if the nonce of the
\* round is still outstanding, the session's socket is closed afterwards and
\* the session's node has one more attest_miss event with detail timeout; if
\* the round was completed by an accepted response, the watchdog closes
\* nothing and records nothing.
C6_DeadlineWatchdog ==
    [][\A w \in watchdogs :
          w \notin watchdogs' =>
              IF w.nonce \in outstanding[w.sess]
              THEN /\ sessions'[w.sess].ws # "open"
                   /\ CountAt(node_events', sessions[w.sess].agent_id,
                              "attest_miss", "timeout", now)
                          = CountAt(node_events, sessions[w.sess].agent_id,
                                    "attest_miss", "timeout", now) + 1
              ELSE UNCHANGED << sessions, apps, nodes, node_events,
                                close_status >>]_vars

\* the watchdog of an accepted first round and the watchdog of a second
\* round that was never answered have both woken up
C6_Witness ==
    \E s \in Sessions :
        /\ accepted[s].nonce = 1
        /\ outstanding[s] = {2}
        /\ watchdogs = {}
        /\ close_status[s] = "attestation_timeout"
        /\ EventsOf(node_events, sessions[s].agent_id, "attest_miss", "timeout") # {}

\* ---------------------------------------------------------------- C7
\* C7: when an attest_response carries a nonce other than the pending one,
\* the server sends status{invalid, nonce_mismatch} and closes the socket,
\* attestation_status of the app is left as it was, the ledger receives an
\* attest_miss event with detail nonce_mismatch for the session's agent, and
\* once the close is handled the Registry reports ws_connected = false.
C7_NonceMismatch ==
    /\ [][\A s \in Sessions :
             (close_status'[s] = "nonce_mismatch" /\ close_status[s] # "nonce_mismatch") =>
                 /\ sessions'[s].ws # "open"
                 /\ \A a \in DOMAIN apps :
                       apps'[a].attestation_status = apps[a].attestation_status
                 /\ CountAt(node_events', sessions[s].agent_id,
                            "attest_miss", "nonce_mismatch", now)
                        > CountAt(node_events, sessions[s].agent_id,
                                  "attest_miss", "nonce_mismatch", now)]_vars
    /\ [][\A s \in Sessions :
             (close_status[s] = "nonce_mismatch" /\ ~Gone(s) /\ Gone(s)'
                 /\ sessions[s].app_name \in DOMAIN apps) =>
                 ~apps'[sessions[s].app_name].ws_connected]_vars

\* ---------------------------------------------------------------- C8
\* C8: when the close of an admitted session's socket is handled, the
\* AppRecord of the app the session was admitted for is marked
\* ws_connected = false and health_status = fail, the ledger node of the
\* session's agent is marked health fail, one health_miss event with detail
\* disconnect is recorded, and the app is not allowed.
C8_DisconnectMarksApp ==
    [][\A s \in Sessions :
          (sessions[s].registered /\ ~Gone(s) /\ Gone(s)') =>
              LET a == accepted[s].app
                  id == sessions[s].agent_id
              IN  /\ ~apps'[a].ws_connected
                  /\ apps'[a].health_status = "fail"
                  /\ nodes'[id].health_status = "fail"
                  /\ CountAt(node_events', id, "health_miss", "disconnect", now)
                         = CountAt(node_events, id, "health_miss", "disconnect", now) + 1
                  /\ ~status_payload(apps'[a], now').allowed]_vars

\* ---------------------------------------------------------------- C9
\* C9: when the close of a session is handled, every proxy request that
\* still waits for a proxy_response on that session is failed in that step:
\* none is left waiting.
C9_PendingProxyFailedOnClose ==
    [][\A s \in Sessions :
          (~Gone(s) /\ Gone(s)') =>
              \A r \in ReqIds :
                  (reqs[r].state = "waiting" /\ reqs[r].sess = s) =>
                      reqs'[r].state # "waiting"]_vars

\* --------------------------------------------------------------- C10
\* C10: once the close of a session has been handled, no task spawned for
\* the session (deadline watchdog, attest loop) changes the Ledger or the
\* Registry; in particular no attest_miss:timeout is recorded after the close.
C10_NoWorkOutlivesSession ==
    [][\A s \in Sessions :
          (/\ Gone(s)
           /\ \/ \E w \in watchdogs : w.sess = s /\ w \notin watchdogs'
              \/ loops'[s] # loops[s]) =>
              UNCHANGED << apps, nodes, node_events >>]_vars

\* --------------------------------------------------------------- C11
\* C11: proxy_request decides in this order: 404 for an unknown app, 403 for
\* a known app that is not allowed, 503 for an allowed app without a session
\* or with a closed socket, and otherwise it sends the proxy_request frame;
\* a request that waits was sent towards an app allowed at that moment, on
\* the open socket of the app's session, and it ends only by a
\* proxy_response frame or at its timeout.
C11_ProxyDecisionOrder ==
    /\ [](\A a \in Apps :
            /\ ProxyGate(a) = "404" <=> a \notin DOMAIN apps
            /\ ProxyGate(a) = "403" <=>
                   (a \in DOMAIN apps /\ ~status_payload(apps[a], now).allowed)
            /\ ProxyGate(a) = "503" <=>
                   /\ a \in DOMAIN apps
                   /\ status_payload(apps[a], now).allowed
                   /\ (a \notin DOMAIN sessions_by_app \/ WsClosed(sessions_by_app[a])))
    /\ [][\A r \in ReqIds :
             /\ (reqs[r].state = "free" /\ reqs'[r].state = "waiting") =>
                    LET a == reqs'[r].app IN
                    /\ a \in DOMAIN apps
                    /\ status_payload(apps[a], now).allowed
                    /\ a \in DOMAIN sessions_by_app
                    /\ sessions_by_app[a] = reqs'[r].sess
                    /\ sessions[reqs'[r].sess].ws = "open"
                    /\ reqs'[r].due = now + ProxyTimeout
             /\ (reqs[r].state = "waiting" /\ reqs'[r].state = "free") =>
                    \/ frames' = frames + 1
                    \/ now >= reqs[r].due]_vars

\* a request waits for the agent's response while the app is no longer
\* allowed, and another app is unknown
C11_Witness ==
    \E r \in ReqIds :
        /\ reqs[r].state = "waiting"
        /\ ProxyGate(reqs[r].app) = "403"
        /\ \E a \in Apps : ProxyGate(a) = "404"

\* --------------------------------------------------------------- C12
\* a frame of the given type and request id waits in the tunnel, unread
Unread(type, id) ==
    \E i \in DOMAIN down : down[i] = [type |-> type, id |-> id]

\* C12: proxy requests on one session are independent: every answered
\* request got the response to its own request, and no request times out,
\* and no attestation round misses its deadline, while its frame still waits
\* unread behind the backend call of another request.
C12_ProxyRequestsIndependent ==
    /\ \A r \in TunnelReqs :
          /\ client[r].state = "answered" => client[r].answer = r
          /\ client[r].state = "timeout" => ~Unread("proxy_request", r)
    /\ round.state \in {"timeout", "late"} => ~Unread("attest_request", 0)

\* --------------------------------------------------------------- C13
\* the time of the last sign of life of a record
LastSeen(rec) ==
    IF rec.last_health_at # NoTime THEN rec.last_health_at ELSE rec.registered_at

\* the records a watchdog tick at time t has to mark: connected, silent for
\* more than health_timeout_s, and not fail yet
Silent(reg, t) ==
    { a \in DOMAIN reg :
        /\ reg[a].ws_connected
        /\ t - LastSeen(reg[a]) > HEALTH_TIMEOUT_SEC
        /\ reg[a].health_status # "fail" }

\* C13: at each health-watchdog tick, every record that is connected,
\* silent for more than health_timeout_s and not fail is marked fail and is
\* not allowed afterwards, its ledger node is marked health fail and one
\* health_miss event with detail timeout is recorded for it; every other
\* record (disconnected, fresh or already fail) is left unchanged and
\* nothing is recorded for it.
C13_HealthWatchdogTick ==
    [][hw_due' # hw_due =>
          /\ \A a \in DOMAIN apps :
                IF a \in Silent(apps, now)
                THEN /\ apps'[a] = [apps[a] EXCEPT !.health_status = "fail",
                                                   !.last_health_at = now]
                     /\ nodes'[apps[a].agent_id].health_status = "fail"
                     /\ ~status_payload(apps'[a], now').allowed
                ELSE apps'[a] = apps[a]
          /\ \A id \in DOMAIN nodes' :
                CountAt(node_events', id, "health_miss", "timeout", now)
                    = CountAt(node_events, id, "health_miss", "timeout", now)
                      + Cardinality({a \in Silent(apps, now) : apps[a].agent_id = id})
          /\ BagCardinality(node_events')
                = BagCardinality(node_events) + Cardinality(Silent(apps, now))]_vars

\* the watchdog has ticked on a connected record that was silent for more
\* than health_timeout_s: the record is fail and one event is recorded
C13_Witness ==
    \E a \in DOMAIN apps :
        /\ apps[a].ws_connected
        /\ apps[a].health_status = "fail"
        /\ apps[a].last_health_at = now
        /\ hw_due > now
        /\ now - apps[a].registered_at > HEALTH_TIMEOUT_SEC
        /\ BagCardinality(node_events) = 1
        /\ EventsOf(node_events, apps[a].agent_id, "health_miss", "timeout") # {}

\* --------------------------------------------------------------- C14
\* the identity a session has taken from its register frame
IdentityOf(sess) ==
    << sess.app_name, sess.repo, sess.release_tag, sess.network, sess.agent_id,
       sess.tunnel_id >>

\* the session waits for the response of an attestation round
AwaitingAttest(sess) == sess.ws = "open" /\ sess.pending_nonce # NoNonce

\* the session has been admitted
Active(sess) == sess.ws = "open" /\ sess.registered

\* C14: a register frame is acted on only in the awaiting_register state:
\* no step changes the identity (app_name, repo, release_tag, network,
\* agent_id, tunnel_id) of a session that is awaiting_attest or active, and
\* no attestation round is started for another identity on such a session.
C14_RegisterOnlyWhenAwaitingRegister ==
    [][\A s \in Sessions :
          (AwaitingAttest(sessions[s]) \/ Active(sessions[s]))
              => /\ IdentityOf(sessions'[s]) = IdentityOf(sessions[s])
                 /\ last_request'[s].reason = "register"
                        => last_request'[s] = last_request[s]]_vars

\* ------------------------------------------------------- C15 .. C19
RECURSIVE SumBalances(_)
\* the sum of balance_cents over all accounts
SumBalances(acc) ==
    IF DOMAIN acc = {} THEN 0
    ELSE LET a == CHOOSE x \in DOMAIN acc : TRUE
         IN  acc[a] + SumBalances([x \in DOMAIN acc \ {a} |-> acc[x]])

RECURSIVE SumDeltas(_)
\* the sum of delta_cents over all ledger entries
SumDeltas(led) ==
    IF DOMAIN led = {} THEN 0
    ELSE LET e == CHOOSE x \in DOMAIN led : TRUE
         IN  e.delta_cents * led[e] + SumDeltas([x \in DOMAIN led \ {e} |-> led[x]])

RECURSIVE SumAmounts(_, _)
\* the sum of amount_cents over the usage rows ids
SumAmounts(us, ids) ==
    IF ids = {} THEN 0
    ELSE LET u == CHOOSE x \in ids : TRUE
         IN  us[u].amount_cents + SumAmounts(us, ids \ {u})

\* the step is a call of op
Calls(op) == calls' = calls + 1 /\ last_call'.op = op

\* the usage rows of node n in the exact window p that are locked
LockedIn(n, p) ==
    { u \in DOMAIN usage :
        /\ usage[u].node_id = n /\ usage[u].status = "locked"
        /\ << usage[u].period_start, usage[u].period_end >> = p }

\* node n is ineligible for the window p, by the rules of the settlement
Ineligible(n, p) ==
    \/ n \notin DOMAIN nodes
    \/ nodes[n].status # "active"
    \/ nodes[n].attestation_status # "valid"
    \/ nodes[n].health_status # "pass"
    \/ nodes[n].stake_amount_cents = NullCents
    \/ nodes[n].stake_amount_cents <= 0
    \/ \E e \in BagToSet(node_events) :
          /\ e.node_id = n /\ e.event_type \in {"attest_miss", "health_miss"}
          /\ p[1] <= e.occurred_at /\ e.occurred_at <= p[2]
    \/ \E rid \in DOMAIN abuse_reports :
          /\ abuse_reports[rid].node_id = n
          /\ abuse_reports[rid].status = "authorized"
          /\ abuse_reports[rid].period_start \in {NoTime} \cup 0..p[2]
          /\ abuse_reports[rid].period_end \in {NoTime} \cup p[1]..MaxTime

\* the ledger entries of the given reason that the step adds
Added(reason) ==
    { e \in BagToSet(ledger') :
        e.reason = reason /\ CopiesIn(e, ledger') > CopiesIn(e, ledger) }

\* C15: the Ledger is balanced at all times: after any sequence of
\* purchase_credits, transfer_credits, report_usage and settle_period calls,
\* successful or failing, the sum of delta_cents over all ledger entries
\* equals the sum of balance_cents over all accounts.
C15_LedgerBalanced == SumDeltas(ledger) = SumBalances(accounts)

\* credits were bought, locked by a usage report and returned by a
\* settlement that failed the usage
C15_Witness ==
    /\ \E u \in DOMAIN usage : usage[u].status = "failed"
    /\ BagCardinality(ledger) >= 3
    /\ SumBalances(accounts) > 0

\* C16: settle_period never credits the provider while the node is
\* ineligible (status not active, attestation not valid, health not pass,
\* stake missing or not positive, an attest_miss or health_miss event inside
\* the window, or an authorized abuse report overlapping it): the call says
\* so, adds no settlement entry, and every locked usage of the exact window
\* ends failed with its lock released, an unlock entry of its amount for
\* its payer, and the payers' balances raised by exactly these amounts.
C16_IneligibleNeverCredited ==
    [][\A n \in NodeIds, p \in Periods :
          (/\ Calls("settle_period") /\ last_call'.ret.node_id = n
           /\ last_call'.ret.period = p /\ Ineligible(n, p))
          => /\ ~last_call'.ret.eligible
             /\ Added("settlement") = {}
             /\ \A u \in LockedIn(n, p) :
                   /\ usage'[u].status = "failed"
                   /\ credit_locks'[usage[u].lock_id].status = "released"
                   /\ [ account_id |-> usage[u].account_id,
                        delta_cents |-> usage[u].amount_cents, reason |-> "unlock",
                        ref_type |-> "usage", ref_id |-> u ] \in Added("unlock")
             /\ \A a \in DOMAIN accounts' :
                   accounts'[a] = (IF a \in DOMAIN accounts THEN accounts[a] ELSE 0)
                       + SumAmounts(usage, { u \in LockedIn(n, p) :
                                               usage[u].account_id = a })]_vars

\* a settlement has failed a usage of a node whose only fault is one
\* health_miss or attest_miss event in the window
C16_Witness ==
    /\ last_call.op = "settle_period" /\ last_call.err = None
    /\ last_call.ret.failed > 0
    /\ \/ last_call.ret.reasons = SetToBag({"health_miss"})
       \/ last_call.ret.reasons = SetToBag({"attest_miss"})

\* C17: when settle_period runs for an eligible node, every locked usage of
\* the node in the exact window ends settled with its lock settled, the
\* node's account is credited by exactly the sum of the locked amounts, no
\* other balance changes and nothing is returned to a payer.
C17_EligibleSettled ==
    [][\A n \in NodeIds, p \in Periods :
          (/\ Calls("settle_period") /\ last_call'.ret.node_id = n
           /\ last_call'.ret.period = p /\ ~Ineligible(n, p))
          => /\ last_call'.ret.eligible
             /\ last_call'.ret.settled = Cardinality(LockedIn(n, p))
             /\ Added("unlock") = {}
             /\ \A u \in LockedIn(n, p) :
                   /\ usage'[u].status = "settled"
                   /\ credit_locks'[usage[u].lock_id].status = "settled"
             /\ \A u \in DOMAIN usage \ LockedIn(n, p) : usage'[u] = usage[u]
             /\ \A a \in DOMAIN accounts' :
                   accounts'[a] = accounts[a]
                       + (IF a = n THEN SumAmounts(usage, LockedIn(n, p)) ELSE 0)]_vars

\* a settlement has settled a usage paid by another account than the node's
C17_Witness ==
    /\ last_call.op = "settle_period" /\ last_call.err = None
    /\ last_call.ret.eligible /\ last_call.ret.settled > 0
    /\ \E u \in DOMAIN usage :
          /\ usage[u].status = "settled"
          /\ usage[u].account_id # usage[u].node_id
          /\ accounts[usage[u].node_id] = usage[u].amount_cents

\* C18: if during a usage period the agent's WebSocket disconnects once and
\* the agent reconnects and is re-admitted, the disconnection records a
\* health_miss event with detail disconnect, and a later settle_period for
\* the period returns eligible=false with reasons exactly [health_miss],
\* returns the locked amounts to the payers, fails the usages and leaves the
\* provider uncredited, though the node is valid and pass again.
C18_DisconnectFailsSettlement ==
    [][\A n \in AgentNodes, p \in Periods :
          /\ (agents[n].conn # "closed" /\ agents'[n].conn = "closed")
                => CountAt(node_events', n, "health_miss", "disconnect", now)
                      = CountAt(node_events, n, "health_miss", "disconnect", now) + 1
          /\ (/\ Calls("settle_period") /\ last_call'.ret.node_id = n
              /\ last_call'.ret.period = p
              /\ agents[n].conn = "active" /\ ~agents[n].missed
              /\ Cardinality({ e \in BagToSet(node_events) :
                                 /\ e.node_id = n /\ e.event_type = "health_miss"
                                 /\ e.detail = "disconnect"
                                 /\ p[1] <= e.occurred_at /\ e.occurred_at <= p[2] }) = 1
              /\ \A e \in BagToSet(node_events) :
                    (e.node_id = n /\ e.event_type = "health_miss")
                        => /\ e.detail = "disconnect"
                           /\ CopiesIn(e, node_events) = 1
              /\ nodes[n].attestation_status = "valid"
              /\ nodes[n].health_status = "pass"
              /\ nodes[n].stake_amount_cents > 0
              /\ abuse_reports = << >>
              /\ LockedIn(n, p) # {})
             => /\ ~last_call'.ret.eligible
                /\ last_call'.ret.reasons = SetToBag({"health_miss"})
                /\ Added("settlement") = {}
                /\ \A u \in LockedIn(n, p) : usage'[u].status = "failed"
                /\ \A a \in DOMAIN accounts :
                      accounts'[a] = accounts[a]
                          + SumAmounts(usage, { u \in LockedIn(n, p) :
                                                  usage[u].account_id = a })]_vars

\* C19: a call of purchase_credits, transfer_credits, report_usage,
\* settle_period, register_node or authorize_abuse_report that raises
\* LedgerError leaves accounts, ledger entries, credit locks, usage rows,
\* nodes, abuse reports and node events as they were; no account row is
\* created for an account that was unknown.
C19_FailedCallChangesNothing ==
    [][(calls' = calls + 1 /\ last_call'.err # None)
          => UNCHANGED << accounts, ledger, credit_locks, usage, nodes,
                          abuse_reports, node_events >>]_vars

\* a transfer from an account that is not in the store has raised
\* insufficient_funds, and a usage report has raised it for a known account
C19_Witness ==
    /\ last_call.err = "insufficient_funds"
    /\ last_call.op \in {"transfer_credits", "report_usage"}
    /\ "alice" \notin DOMAIN accounts
    /\ nodes # << >>

\* --------------------------------------------------------------- C20
\* C20: for every record of the registry, status_payload reports allowed
\* exactly when registration_state is active, attestation_status is valid,
\* health_status is pass, ws_connected is set and the record's network is
\* not one the control plane requires sealed attestation for, or the record
\* is sealed; no record on such a network is reported allowed while its
\* sealed flag is false.
C20_AllowedExactly ==
    \A a \in DOMAIN apps :
        LET rec == apps[a]
            payload == status_payload(rec, now)
        IN  /\ payload.allowed <=>
                  /\ payload.registration_state = "active"
                  /\ rec.attestation_status = "valid"
                  /\ rec.health_status = "pass"
                  /\ rec.ws_connected
                  /\ (rec.network \notin sealed_networks \/ rec.sealed)
            /\ (rec.network \in sealed_networks /\ ~rec.sealed) => ~payload.allowed

\* a connected record on a network that requires sealed attestation, health
\* pass and registration active, has lost its sealed flag to an unsealed
\* attestation and is not allowed
C20_Witness ==
    \E a \in DOMAIN apps :
        /\ apps[a].network \in sealed_networks
        /\ ~apps[a].sealed
        /\ apps[a].ws_connected
        /\ apps[a].health_status = "pass"
        /\ registration_state(apps[a], now) = "active"
        /\ ~status_payload(apps[a], now).allowed

\* ------------------------------------------------------- C21, C22
\* the step is a call of Registry.register
Registers == reg_calls' = reg_calls + 1 /\ reg_call'.seq # reg_call.seq

\* the identity a record was registered with
RecordIdentity(a, rec) ==
    [ app_name |-> a, repo |-> rec.repo, release_tag |-> rec.release_tag,
      network |-> rec.network, agent_id |-> rec.agent_id ]

\* the identity of the last call of register
CallIdentity(c) ==
    [ app_name |-> c.app_name, repo |-> c.repo, release_tag |-> c.release_tag,
      network |-> c.network, agent_id |-> c.agent_id ]

\* C21: Registry.register is idempotent for an identical (app_name, repo,
\* release_tag, network, agent_id) after an initial success: repeating it
\* changes only registered_at and registration_expires_at, which become now
\* and now + ttl_days, leaves last_attested_at, last_health_at,
\* attestation_status, health_status, sealed, ws_connected and tunnel_id
\* unchanged, and creates no second record.
C21_RegisterIdempotent ==
    [][\A a \in DOMAIN apps :
          (Registers /\ CallIdentity(reg_call') = RecordIdentity(a, apps[a]))
          => /\ ~reg_call'.raised
             /\ DOMAIN apps' = DOMAIN apps
             /\ apps' = [apps EXCEPT
                    ![a].registered_at = now,
                    ![a].registration_expires_at = now + REGISTRATION_TTL_DAYS]]_vars

\* an app that was attested and connected has been registered again, later,
\* with the same identity
C21_Witness ==
    \E a \in DOMAIN apps :
        /\ reg_call.at = now /\ ~reg_call.raised
        /\ CallIdentity(reg_call) = RecordIdentity(a, apps[a])
        /\ apps[a].registered_at = now
        /\ apps[a].last_attested_at # NoTime /\ apps[a].last_attested_at < now
        /\ apps[a].attestation_status = "valid"
        /\ apps[a].ws_connected

\* C22: Registry.register for an app_name that has an AppRecord with a
\* different repo fails, and the registry is left as it was.
C22_RegisterOtherRepoFails ==
    [][\A a \in DOMAIN apps :
          (Registers /\ reg_call'.app_name = a /\ reg_call'.repo # apps[a].repo)
          => /\ reg_call'.raised
             /\ apps' = apps]_vars

\* a register for a known app with another repo has raised, after the clock
\* has moved on from the registration
C22_Witness ==
    /\ reg_call.raised
    /\ reg_call.app_name \in DOMAIN apps
    /\ apps[reg_call.app_name].repo # reg_call.repo
    /\ apps[reg_call.app_name].registered_at < now

\* --------------------------------------------------------------- C23
\* the balance of an account in a store
BalanceIn(db, a) == IF a \in DOMAIN db.accounts THEN db.accounts[a] ELSE 0

\* the number of ledger entries of a store that record the purchase of c
\* cents by account a
PurchaseEntries(db, a, c) ==
    LET e == [ account_id |-> a, delta_cents |-> c, reason |-> "purchase",
               ref_type |-> "purchase", ref_id |-> 0 ]
    IN  IF e \in BagToSet(db.ledger) THEN CopiesIn(e, db.ledger) ELSE 0

\* store after is store before with one more ledger entry, the purchase of
\* c cents by account a
OneEntryMore(before, after, a, c) ==
    /\ BagCardinality(after.ledger) = BagCardinality(before.ledger) + 1
    /\ PurchaseEntries(after, a, c) = PurchaseEntries(before, a, c) + 1

\* C23: for every account a and positive amounts x and y,
\* purchase_credits(a, x) followed by purchase_credits(a, y) leaves the same
\* final balance as a single purchase_credits(a, x + y), and each
\* purchase_credits call appends exactly one ledger entry, with reason
\* purchase and the purchased amount as its delta.
C23_PurchaseAdditive ==
    /\ [](purchases.phase = "second" /\ purchases.single
            => BalanceIn(purchases.two, purchases.account_id)
                 = BalanceIn(purchases.one, purchases.account_id))
    /\ [][/\ purchases'.phase = "first" /\ purchases.phase = "start"
             => OneEntryMore(purchases.two, purchases'.two,
                             purchases.account_id, purchases.x)
          /\ purchases'.phase = "second" /\ purchases.phase = "first"
             => OneEntryMore(purchases.two, purchases'.two,
                             purchases.account_id, purchases.y)
          /\ purchases.phase # "none" /\ purchases'.single /\ ~purchases.single
             => OneEntryMore(purchases.one, purchases'.one,
                             purchases.account_id, purchases.x + purchases.y)]_vars

\* an account with a balance has bought twice the same amount in one copy
\* and the sum in the other
C23_Witness ==
    /\ purchases.phase = "second" /\ purchases.single
    /\ purchases.x = purchases.y
    /\ BalanceIn(purchases.begin, purchases.account_id) > 0
    /\ BalanceIn(purchases.two, purchases.account_id)
         = BalanceIn(purchases.begin, purchases.account_id) + 2 * purchases.x
    /\ PurchaseEntries(purchases.two, purchases.account_id, purchases.x) >= 2

\* --------------------------------------------------------------- C24
\* C24: a usage report posted to /v1/usage/report with vcpu_hours = 0, with
\* a negative vcpu_hours or with a vcpu_hours that is not a number is
\* answered with the reason invalid_vcpu_hours, and no credits are locked.
C24_ZeroHoursInvalid ==
    (/\ usage_report.phase = "answered"
     /\ \/ usage_report.vcpu_hours.numeric /\ usage_report.vcpu_hours.half_hours <= 0
        \/ /\ usage_report.vcpu_hours.json = "string"
           /\ ~usage_report.vcpu_hours.numeric /\ ~usage_report.vcpu_hours.empty)
    => /\ usage_report.error = "invalid_vcpu_hours"
       /\ usage_report.after = usage_report.db

\* --------------------------------------------------------------- C25
\* the request carries the admin token of a configuration that has one
PresentsAdminToken ==
    /\ auth_check.admin # Unset
    /\ auth_check.header.scheme = "Bearer"
    /\ auth_check.header.token = auth_check.admin

\* C25: for every configuration of the three tokens, a request with the
\* admin token is authorised on launcher and uptime paths, a launcher or
\* uptime path whose own token is unset is open, and an admin-only path
\* authorises nothing but the admin token, also when a token is unset.
C25_RoleLattice ==
    auth_check.phase = "answered" =>
        /\ auth_check.path # "admin" /\ PresentsAdminToken => auth_check.authorised
        /\ auth_check.path = "launcher" /\ auth_check.launcher = Unset
              => auth_check.authorised
        /\ auth_check.path = "uptime" /\ auth_check.uptime = Unset
              => auth_check.authorised
        /\ auth_check.path = "admin" /\ ~PresentsAdminToken => ~auth_check.authorised

\* --------------------------------------------------------------- C26
\* the statuses a deployment's file may hold in turn
StatusOrder ==
    { << "pending" >>, << "pending", "deploying" >>,
      << "pending", "deploying", "complete" >>,
      << "pending", "deploying", "failed" >> }

\* C26: the persisted status of an accepted deployment goes pending,
\* deploying, then exactly one of complete or failed; it is never changed
\* once complete or failed; the worker always ends in complete or failed,
\* and failed comes with the error recorded.
C26_DeploymentSequence ==
    /\ [](deployment.pc # "idle" => deployment.saved \in StatusOrder)
    /\ [](deployment.status = "failed" => deployment.error # None)
    /\ [][deployment.status \in {"complete", "failed"}
              => deployment' = deployment]_vars
    /\ (deployment.pc = "pending"
          ~> /\ deployment.pc = "done"
             /\ deployment.status \in {"complete", "failed"}
             /\ deployment.saved[Len(deployment.saved)] = deployment.status)

\* a deployment went pending, deploying, failed when compose returned non-zero
C26_Witness ==
    /\ deployment.pc = "done"
    /\ deployment.saved = << "pending", "deploying", "failed" >>
    /\ deployment.error = "docker compose failed"

\* --------------------------------------------------------------- C27
\* the archive has no compose file, or several and none at the root
NoUsableCompose(archive) ==
    LET compose == { m \in archive : IsCompose(m) }
    IN  \/ compose = {}
        \/ Cardinality(compose) > 1 /\ ComposeYml \notin archive

\* C27: a deployment whose bundle has no compose file, or several and none
\* at the root, ends failed, with the matching error once the bundle was
\* materialised, nothing written under /opt/workload and compose never run.
C27_BadComposeFails ==
    (/\ deployment.pc = "done"
     /\ NoUsableCompose(deployment.archive))
    => /\ deployment.status = "failed"
       /\ deployment.workload = {}
       /\ ~deployment.compose_invoked
       /\ deployment.extracted /\ deployment.error # UnsafePath
             => deployment.error =
                   IF { m \in deployment.archive : IsCompose(m) } = {}
                   THEN MissingCompose ELSE MultipleCompose

\* a bundle with two nested compose files has failed
C27_Witness ==
    /\ deployment.pc = "done"
    /\ deployment.source = "zip"
    /\ deployment.archive = {NestedYml, NestedYaml}
    /\ deployment.error = MultipleCompose
    /\ deployment.workload = {}

\* --------------------------------------------------------------- C28
\* C28: whichever way the bundle is materialised, an archive with a member
\* whose path escapes the destination fails the extraction with the
\* unsafe-path error before any member is written, and no file is created
\* outside the destination.
C28_TraversalFailsExtraction ==
    (/\ deployment.extracted
     /\ \E m \in deployment.archive : Escapes(m))
    => /\ deployment.status = "failed"
       /\ deployment.error = UnsafePath
       /\ deployment.members_written = {}
       /\ deployment.outside = {}

\* --------------------------------------------------------------- C29
\* the quote is shorter than 636 bytes or its tee_type is not 0x81
NotTdxQuote ==
    \/ quote_check.len < MIN_QUOTE_LEN
    \/ unpack_le32(quote_check.tee) # TDX_TEE_TYPE

\* C29: verify_quote on a quote whose tee_type is not 0x81, or that is
\* shorter than 636 bytes, raises a DCAP error, and the collateral service
\* is never asked.
C29_NonTdxRejectedBeforePccs ==
    quote_check.pc # "idle" /\ NotTdxQuote
    => /\ quote_check.pccs_calls = 0
       /\ quote_check.pc \in {"called", "done"}
       /\ quote_check.pc = "done" => quote_check.raised # None

\* a well-formed quote of another TEE was rejected
C29_Witness ==
    /\ quote_check.pc = "done"
    /\ quote_check.decodable /\ ~quote_check.skip_pccs
    /\ quote_check.len = 1400 /\ quote_check.sig_len = 600
    /\ quote_check.tee = << 129, 0, 0, 1 >>
    /\ quote_check.raised = "Not a TDX quote"
    /\ quote_check.pccs_calls = 0

\* --------------------------------------------------------------- C30
\* the release carries attestation data: the asset, or a fenced JSON block
Carries(release) == release.asset \/ release.body = "fenced"

\* C30: when the releases request succeeds and assets can be fetched,
\* get_latest_attestation returns the attestation of the first release that
\* carries one, from its attestation.json asset if it has one and from the
\* fenced block of its body otherwise; it raises AttestationNotFoundError
\* when the request returns 404 and when no release carries attestation data.
C30_FirstAttestation ==
    release_scan.pc = "done" =>
        LET out == release_scan.outcome
            releases == release_scan.releases
            carriers == { i \in 1..Len(releases) : Carries(releases[i]) }
        IN  /\ release_scan.status_code = 404
                  => out.raised = "AttestationNotFoundError"
            /\ release_scan.status_code = 200 /\ release_scan.asset_ok
                  => IF carriers = {}
                     THEN out.raised = "AttestationNotFoundError"
                     ELSE LET first == CHOOSE i \in carriers :
                                           \A j \in carriers : i <= j
                          IN  /\ out.raised = None
                              /\ out.index = first
                              /\ out.via = IF releases[first].asset THEN "asset"
                                           ELSE "body"


\* ---------------------------------------------------------------- C31
\* a proxy_response frame handled on session s completes request r: the
\* future of r is set and its proxy_request returns
Completes(s, r) ==
    /\ HandleProxyResponse(s)
    /\ reqs[r].state = "waiting"
    /\ reqs'[r] = FreeSlot

\* the waiting proxy request r stops waiting
StopsWaiting(r) == reqs[r].state = "waiting" /\ reqs'[r].state # "waiting"

C40_AtMostOneAttestLoop ==
    \A s \in DOMAIN loops : Len(loops[s]) <= 1

\* ---------------------------------------------------------------- C39
\* C39: the handling of a disconnect completes for every session in every
\* state: it raises no error, the session leaves the session table, and if
\* the session named an agent_id one health_miss event with detail
\* disconnect is recorded in the ledger.
C39_DisconnectCompletes ==
    [][\A s \in Sessions :
          (sessions[s].ws = "closing" /\ sessions'[s].ws = "closed") =>
              LET id == sessions[s].agent_id
              IN  /\ ~DisconnectRaises(apps, sessions[s])
                  /\ s \notin sessions_tbl'
                  /\ id # None =>
                       CountAt(node_events', id, "health_miss", "disconnect", now)
                         = CountAt(node_events, id, "health_miss", "disconnect", now) + 1]_vars

\* ---------------------------------------------------------------- C38
\* C38: a session that has never passed attestation changes no AppRecord
\* (not by a register naming an existing app, a failing attest_response, a
\* health frame or its disconnect); in particular no AppRecord exists for
\* an app that no session has successfully attested.
C38_OnlyAttestedSessionsTouchRegistry ==
    \A a \in DOMAIN apps : \E s \in DOMAIN accepted : a \in accepted[s].admitted

\* ---------------------------------------------------------------- C37
\* the app-to-session map holds for app a a session admitted for a whose
\* socket is in one of the states ws
HoldsAdmitted(a, ws) ==
    /\ a \in DOMAIN sessions_by_app
    /\ a \in accepted[sessions_by_app[a]].admitted
    /\ sessions[sessions_by_app[a]].ws \in ws

\* C37: the Registry and the session table agree in every reachable state:
\* for every app, AppRecord.ws_connected is true exactly when the
\* app-to-session map holds for the app a session admitted for it whose
\* socket is open.  The time between the close of a socket and the handling
\* of that close is not held against the claim: there the record may still
\* read connected.
C37_RegistryAgreesWithSessions ==
    \A a \in DOMAIN apps :
        /\ HoldsAdmitted(a, {"open"}) => apps[a].ws_connected
        /\ apps[a].ws_connected => HoldsAdmitted(a, {"open", "closing"})

\* ---------------------------------------------------------------- C32
\* _handle_attest_response, lines 204-215: what the handler does with an
\* attest_response carrying nonce that arrives at time t on a session whose
\* Session object is sess
AttestReply(sess, nonce, t) ==
    IF NoRoundPending(sess) THEN "unexpected_attestation"
    ELSE IF NonceMismatch(sess, nonce) THEN "nonce_mismatch"
    ELSE IF ResponseLate(sess, t) THEN "attestation_timeout"
    ELSE "verify"

\* session s has had an attest_response accepted and its socket is open
HasAccepted(s) == sessions[s].ws = "open" /\ accepted[s].nonce # NoNonce

\* an attest_response of session s is accepted in this step: the handler
\* reaches its last line and starts an _attest_loop task
AcceptStep(s) == Len(loops'[s]) = Len(loops[s]) + 1

\* C32 as stated: after an attest_response has been accepted, a second
\* attest_response carrying the same nonce is answered with
\* status{invalid, unexpected_attestation} and the session stays as it is
C32_ReplayAnsweredUnexpected ==
    \A s \in Sessions :
        HasAccepted(s) =>
            AttestReply(sessions[s], accepted[s].nonce, now) = "unexpected_attestation"

\* C32, amended: an attestation nonce is accepted at most once and only in
\* time.  An attest_response is accepted only if it carries the pending
\* nonce, not later than ATTEST_DEADLINE_SEC after its attest_request was
\* sent, and the acceptance ends the round; a second attest_response with an
\* accepted nonce is never verified again: it is answered
\* unexpected_attestation while no round is pending, and nonce_mismatch
\* (which closes the socket) while a later round is pending.
C32_NonceAcceptedOnceInTime ==
    /\ [](\A s \in Sessions :
            HasAccepted(s) =>
                AttestReply(sessions[s], accepted[s].nonce, now) =
                    IF NoRoundPending(sessions[s]) THEN "unexpected_attestation"
                    ELSE "nonce_mismatch")
    /\ [][\A s \in Sessions :
            AcceptStep(s) =>
                /\ accepted'[s].nonce = sessions[s].pending_nonce
                /\ accepted'[s].nonce # accepted[s].nonce
                /\ now - sessions[s].pending_sent_at <= ATTEST_DEADLINE_SEC
                /\ sessions'[s].pending_nonce = NoNonce
                /\ AttestReply(sessions[s], accepted'[s].nonce, now) = "verify"]_vars

\* a nonce was accepted and a later round is pending on the open session:
\* the replay of the accepted nonce meets a pending nonce
C32_Witness_ReplayDuringLaterRound ==
    \E s \in Sessions :
        /\ HasAccepted(s)
        /\ sessions[s].pending_nonce \notin {NoNonce, accepted[s].nonce}
        /\ last_request[s].reason = "periodic"

\* ---------------------------------------------------------------- C35
RECURSIVE SumLocked(_)
\* the sum of amount_cents over the credit locks in status locked
SumLocked(locks) ==
    IF DOMAIN locks = {} THEN 0
    ELSE LET l == CHOOSE x \in DOMAIN locks : TRUE
         IN  (IF locks[l].status = "locked" THEN locks[l].amount_cents ELSE 0)
               + SumLocked([x \in DOMAIN locks \ {l} |-> locks[x]])

\* the total of the purchased cents: the ledger entries of reason purchase
Purchased(led) ==
    SumDeltas([e \in { x \in DOMAIN led : x.reason = "purchase" } |-> led[e]])

\* C35: credits are conserved: in every state reached by purchase_credits,
\* transfer_credits, report_usage and settle_period the sum of all balances
\* plus the sum of amount_cents of the locks in status locked equals the
\* total of the purchased cents, and only purchase_credits changes that
\* total.
C35_CreditsConserved ==
    /\ [](SumBalances(accounts) + SumLocked(credit_locks) = Purchased(ledger))
    /\ [][(SumBalances(accounts') + SumLocked(credit_locks')
             # SumBalances(accounts) + SumLocked(credit_locks)
           \/ Purchased(ledger') # Purchased(ledger))
          => Calls("purchase_credits") /\ last_call'.err = None]_vars

\* credits were purchased and locked, and the lock was settled: the
\* provider holds cents that the buyer purchased
C35_Witness_PurchasedLockedSettled ==
    /\ Purchased(ledger) > 0
    /\ \E l \in DOMAIN credit_locks :
          /\ credit_locks[l].status = "settled"
          /\ \E a \in DOMAIN accounts :
                a # credit_locks[l].account_id /\ accounts[a] > 0

\* ---------------------------------------------------------------- C36
\* The credit API called long enough to settle a window twice: a node is
\* registered, credits are purchased, usage is reported, and the window is
\* settled more than once, while the node's agent is admitted or not.
MaxSettleCalls == 5

S_register_node ==
    /\ calls < MaxSettleCalls
    /\ \E n \in NodeIds, p \in Pricings, allow_update \in BOOLEAN :
          Called("register_node", register_node(Db, n, p.price, p.stake, allow_update))

S_purchase_credits ==
    /\ calls < MaxSettleCalls
    /\ \E a \in AccountIds, c \in Amounts :
          Called("purchase_credits", purchase_credits(Db, a, c))

S_report_usage ==
    /\ calls < MaxSettleCalls
    /\ FreshUsage <= MaxUsage
    /\ \E a \in AccountIds, n \in NodeIds, h \in HalfHours, p \in Periods :
          Called("report_usage", report_usage(Db, a, n, h, p, FreshUsage))

S_settle_period ==
    /\ calls < MaxSettleCalls
    /\ \E n \in NodeIds, p \in Periods :
          Called("settle_period", settle_period(Db, node_events, n, p))

SettleNext ==
    /\ UNCHANGED aux_state
    /\ \/ S_register_node
       \/ S_purchase_credits
       \/ S_report_usage
       \/ S_settle_period
       \/ \E n \in AgentNodes : L_Admitted(n)
       \/ \E n \in AgentNodes : L_Disconnect(n)

SpecSettle == Init /\ [][SettleNext]_vars

\* the status of a lock that goes with the status of its usage row
LockStatusOf(usage_status) ==
    CASE usage_status = "settled" -> "settled"
      [] usage_status = "failed" -> "released"
      [] OTHER -> "locked"

\* the step is a settle_period that returns, for the node and window of the
\* settle_period that was the call before it
RepeatedSettle ==
    /\ Calls("settle_period")
    /\ last_call.op = "settle_period"
    /\ last_call.err = None /\ last_call'.err = None
    /\ last_call'.ret.node_id = last_call.ret.node_id
    /\ last_call'.ret.period = last_call.ret.period

\* C36: every usage row leaves status locked at most once: a row that is
\* settled or failed keeps its status, a settle_period repeated for the same
\* node and window changes no balance, appends no ledger entry and reports
\* settled = 0 and failed = 0, and in every state a usage row is settled
\* exactly when its lock is settled, failed exactly when its lock is
\* released, and locked exactly when its lock is locked.
C36_SettledOnce ==
    /\ [](\A u \in DOMAIN usage :
            /\ usage[u].lock_id \in DOMAIN credit_locks
            /\ usage[u].status \in {"locked", "settled", "failed"}
            /\ credit_locks[usage[u].lock_id].status = LockStatusOf(usage[u].status))
    /\ [][/\ \A u \in DOMAIN usage :
               usage[u].status # "locked" =>
                   /\ usage'[u].status = usage[u].status
                   /\ credit_locks'[usage[u].lock_id] = credit_locks[usage[u].lock_id]
          /\ RepeatedSettle =>
               /\ accounts' = accounts
               /\ ledger' = ledger
               /\ usage' = usage /\ credit_locks' = credit_locks
               /\ last_call'.ret.settled = 0
               /\ last_call'.ret.failed = 0]_vars

\* a window with a settled usage row has just been settled again: the last
\* call is a settle_period of the row's node and window that found nothing
C36_Witness_SettledTwice ==
    /\ last_call.op = "settle_period" /\ last_call.err = None
    /\ last_call.ret.settled = 0 /\ last_call.ret.failed = 0
    /\ last_call.ret.eligible
    /\ \E u \in DOMAIN usage :
          /\ usage[u].status = "settled"
          /\ usage[u].node_id = last_call.ret.node_id
          /\ << usage[u].period_start, usage[u].period_end >> = last_call.ret.period
    /\ \A u \in DOMAIN usage : usage[u].status # "locked"
    /\ Cardinality(DOMAIN usage) = 1
    /\ calls = MaxSettleCalls

\* ================================================= RA-TLS material (C34)
\* ensure_ratls_material of the control plane (ratls.py) and of the agent
\* (agent.py), called at any time on the clock.  The material is the
\* content of ratls.key and ratls.crt: the number of the key pair and the
\* end of the certificate's validity.  ratls_cert_ttl is one clock unit.
RATLS_CERT_TTL_SEC == 1
MaxRatlsCalls == 3

\* ratls.py, lines 37-58: the control plane's ensure_ratls_material called
\* at time t on the state st of the process
cp_ensure_ratls_material(st, t) ==
    LET made == [ key |-> st.keys + 1, not_after |-> t + RATLS_CERT_TTL_SEC ]
    IN  [ st EXCEPT !.keys = @ + 1, !.quotes = @ + 1, !.files = made,
                    !.calls = @ + 1, !.returned = made ]

\* agent.py, lines 977-1003: the agent's ensure_ratls_material called at
\* time t on the state st of the process
agent_ensure_ratls_material(st, t) ==
    IF st.cached # NoMaterial
    THEN [ st EXCEPT !.calls = @ + 1, !.returned = st.cached ]
    ELSE LET made == [ key |-> st.keys + 1, not_after |-> t + RATLS_CERT_TTL_SEC ]
         IN  [ st EXCEPT !.keys = @ + 1, !.quotes = @ + 1, !.files = made,
                         !.cached = made, !.calls = @ + 1, !.returned = made ]

RatlsStep(r) ==
    /\ ratls_material' = r
    /\ UNCHANGED << cp_state, tunnel_state, ledger_state, beside_ratls_material >>

M_control_plane_ensure ==
    /\ ratls_material["control_plane"].calls < MaxRatlsCalls
    /\ RatlsStep([ratls_material EXCEPT !["control_plane"] =
                     cp_ensure_ratls_material(@, now)])
    /\ UNCHANGED now

M_agent_ensure ==
    /\ ratls_material["agent"].calls < MaxRatlsCalls
    /\ RatlsStep([ratls_material EXCEPT !["agent"] =
                     agent_ensure_ratls_material(@, now)])
    /\ UNCHANGED now

M_Tick ==
    /\ now < MaxTime
    /\ now' = now + 1
    /\ RatlsStep(ratls_material)

RatlsNext == M_control_plane_ensure \/ M_agent_ensure \/ M_Tick

SpecRatls == Init /\ [][RatlsNext]_vars

\* the material m is within its lifetime at time t
WithinTtl(m, t) == m # NoMaterial /\ t <= m.not_after

\* C34: ensure_ratls_material returns the same key and certificate on every
\* call made within ratls_cert_ttl of generation, and never returns material
\* older than ratls_cert_ttl: a call after the lifetime generates a new key
\* pair, obtains a new quote and builds a new certificate; for the control
\* plane's and for the agent's implementation.
C34_MaterialCachedForTtl ==
    [][\A p \in RatlsProcesses :
          ratls_material'[p].calls = ratls_material[p].calls + 1 =>
              LET old == ratls_material[p]
                  new == ratls_material'[p]
              IN  /\ WithinTtl(new.returned, now)
                  /\ WithinTtl(old.files, now) =>
                       /\ new.returned = old.files
                       /\ new.quotes = old.quotes
                  /\ ~WithinTtl(old.files, now) =>
                       /\ new.returned.key \notin 0..old.keys
                       /\ new.quotes = old.quotes + 1
                       /\ new.returned.not_after = now + RATLS_CERT_TTL_SEC]_vars

\* ============================================ the agent's client (C33)
\* tunnel_client_loop of agent.py and main with run_client of
\* tunnel_client.py: dial, register, the message loop with its health_loop
\* task, and the back-off after the connection has ended.  A connection is
\* named by the number of its dial.  One action is one piece of the
\* coroutine between two suspension points that another task of the client
\* can see; the server and the network are the environment.  The intervals
\* are one clock unit.
EE_RECONNECT_DELAY_SEC == 1
EE_HEALTH_INTERVAL_SEC == 1
MaxDials == 3
MaxClientFrames == 3
MaxInbox == 1

\* the frames the control plane sends to the agent
ServerFrames ==
    { [type |-> "attest_request", nonce |-> n] : n \in 1..MaxNonce }
      \cup { [type |-> "proxy_request", nonce |-> 0], [type |-> "status", nonce |-> 0] }

\* the frames the message loop sends for a frame it has read
AnswerTo(frame) ==
    CASE frame.type = "attest_request" ->
             << [type |-> "attest_response", nonce |-> frame.nonce] >>
      [] frame.type = "proxy_request" ->
             << [type |-> "proxy_response", nonce |-> 0],
                [type |-> "health", nonce |-> 0] >>
      [] OTHER -> << >>

\* the model's bound: the client can still wait and dial once more
CanComeBack(c) ==
    c.dials < MaxDials /\ now + EE_RECONNECT_DELAY_SEC <= MaxTime

\* a client that dials again without waiting
BackoffOverAtOnce(c, t) == TRUE

\* agent.py line 1538, tunnel_client.py line 111: the sleep of the back-off
\* has ended at time t
BackoffOver(c, t) == t >= c.wake

\* the connection is left (the async with closes the socket) and the
\* coroutine goes to sleep for the back-off; cancel: health_task.cancel()
\* was reached
Leave(c, how, cancel) ==
    [ c EXCEPT !.pc = "backoff",
               !.wake = now + EE_RECONNECT_DELAY_SEC,
               !.open = @ \ {c.dials},
               !.inbox = << >>,
               !.health = IF cancel THEN { h \in @ : h.conn # c.dials } ELSE @,
               !.ended_at = now,
               !.ended_by = how ]

ClientStep(c) ==
    /\ tunnel_client' = c
    /\ UNCHANGED << now, cp_state, tunnel_state, ledger_state, beside_tunnel_client >>

\* the agent (agent.py line 1553) or the stand-alone client
\* (tunnel_client.py line 115) starts its loop
K_Start ==
    /\ tunnel_client.pc = "off"
    /\ \E impl \in {"agent", "tunnel_client"} :
          ClientStep([tunnel_client EXCEPT !.impl = impl, !.pc = "dial"])

\* agent.py lines 1494-1512, tunnel_client.py lines 63-76: ws_connect, the
\* check of the server's RA-TLS certificate (agent.py only), the register
\* frame and the start of health_loop; or the exception that ends the try
K_Dial ==
    /\ \/ tunnel_client.pc = "dial"
       \/ tunnel_client.pc = "backoff" /\ BackoffOver(tunnel_client, now)
    /\ tunnel_client.dials < MaxDials
    /\ \E outcome \in {"ok", "transport_error", "ratls_failed"} :
          LET c == [tunnel_client EXCEPT !.dials = @ + 1, !.sent = << >>,
                                         !.inbox = << >>]
          IN  IF outcome = "ok"
              THEN ClientStep([c EXCEPT
                      !.pc = "loop",
                      !.open = @ \cup {c.dials},
                      !.sent = << [type |-> "register", nonce |-> 0] >>,
                      !.health = @ \cup {[conn |-> c.dials,
                                          due |-> now + EE_HEALTH_INTERVAL_SEC]}])
              ELSE /\ outcome = "ratls_failed" => tunnel_client.impl = "agent"
                   /\ CanComeBack(c)
                   /\ ClientStep(Leave(c, outcome, FALSE))

\* the control plane sends a frame
K_Receive ==
    /\ tunnel_client.pc = "loop"
    /\ Len(tunnel_client.inbox) < MaxInbox
    /\ \E f \in ServerFrames :
          ClientStep([tunnel_client EXCEPT !.inbox = Append(@, f)])

\* agent.py lines 1513-1533, tunnel_client.py lines 78-100: the message
\* loop reads a frame and answers it, or the handling raises
K_Handle ==
    /\ tunnel_client.pc = "loop"
    /\ tunnel_client.inbox # << >>
    /\ \E raises \in BOOLEAN :
          LET f == Head(tunnel_client.inbox)
          IN  IF raises
              THEN /\ CanComeBack(tunnel_client)
                   /\ ClientStep(Leave(tunnel_client, "exception", FALSE))
              ELSE /\ Len(tunnel_client.sent) + Len(AnswerTo(f)) <= MaxClientFrames
                   /\ ClientStep([tunnel_client EXCEPT
                          !.inbox = Tail(@), !.sent = @ \o AnswerTo(f)])

\* agent.py lines 1534-1536, tunnel_client.py lines 101-102: the server
\* closes or the transport fails; the async for ends, the agent cancels
\* its health task
K_Closed ==
    /\ tunnel_client.pc = "loop"
    /\ CanComeBack(tunnel_client)
    /\ \E how \in {"clean_close", "transport_error"} :
          ClientStep(Leave(tunnel_client, how, tunnel_client.impl = "agent"))

\* health_loop (agent.py lines 1466-1471, tunnel_client.py lines 51-56): the
\* task h wakes up
K_HealthLoop ==
    /\ tunnel_client.health # {}
    /\ \E h \in tunnel_client.health :
          /\ now >= h.due
          /\ IF h.conn \notin tunnel_client.open
             THEN ClientStep([tunnel_client EXCEPT !.health = @ \ {h}])
             ELSE /\ Len(tunnel_client.sent) < MaxClientFrames
                  /\ ClientStep([tunnel_client EXCEPT
                        !.sent = Append(@, [type |-> "health", nonce |-> 0]),
                        !.health = (@ \ {h}) \cup
                            {[conn |-> h.conn, due |-> now + EE_HEALTH_INTERVAL_SEC]}])

K_Tick ==
    /\ now < MaxTime
    /\ now' = now + 1
    /\ UNCHANGED << cp_state, tunnel_state, ledger_state, aux_state >>

ClientNext ==
    K_Start \/ K_Dial \/ K_Receive \/ K_Handle \/ K_Closed \/ K_HealthLoop \/ K_Tick

SpecClient == Init /\ [][ClientNext]_vars

\* the event loop runs a coroutine that is ready, and time passes
SpecClientFair ==
    Init /\ [][ClientNext]_vars /\ WF_vars(K_Dial) /\ WF_vars(K_Tick)

\* ---------------------------------------------------------------- C33
\* the step dials
Dials == tunnel_client'.dials = tunnel_client.dials + 1

\* the step handles the frame at the head of the inbox without raising
Handles ==
    /\ tunnel_client.inbox # << >>
    /\ tunnel_client'.inbox = Tail(tunnel_client.inbox)
    /\ tunnel_client'.pc = "loop"

\* C33: the agent's client keeps at most one control connection at a time
\* and always comes back: after any end of a connection (clean close,
\* transport error, failed check of the server's RA-TLS certificate,
\* exception while handling a frame) it waits reconnect_delay_s and dials
\* again; on every connection the first frame it sends is register; while
\* connected it answers each attest_request with an attest_response that
\* echoes the nonce, and a health_loop of the connection is due within
\* health_interval_s and sends health{pass} on that connection only.
C33_ClientComesBack ==
    /\ [](/\ Cardinality(tunnel_client.open) <= 1
          /\ tunnel_client.pc = "loop" =>
               /\ tunnel_client.open = {tunnel_client.dials}
               /\ tunnel_client.sent # << >>
               /\ tunnel_client.sent[1].type = "register"
               /\ \E h \in tunnel_client.health :
                     /\ h.conn = tunnel_client.dials
                     /\ h.due <= now + EE_HEALTH_INTERVAL_SEC
          /\ tunnel_client.pc # "loop" => tunnel_client.open = {})
    /\ [][/\ (Dials /\ tunnel_client.ended_at # NoTime) =>
               now >= tunnel_client.ended_at + EE_RECONNECT_DELAY_SEC
          /\ (Handles /\ Head(tunnel_client.inbox).type = "attest_request") =>
               tunnel_client'.sent = Append(tunnel_client.sent,
                   [type |-> "attest_response",
                    nonce |-> Head(tunnel_client.inbox).nonce])
          /\ tunnel_client'.ended_at # tunnel_client.ended_at =>
               /\ tunnel_client'.pc = "backoff"
               /\ tunnel_client'.wake = now + EE_RECONNECT_DELAY_SEC]_vars
    /\ \A k \in 0..MaxDials :
          (tunnel_client.pc = "backoff" /\ tunnel_client.dials = k)
              ~> (tunnel_client.dials > k)

\* the client is connected again after the server closed its connection,
\* and on the new connection it has answered an attest_request
C33_Witness_BackAfterCleanClose ==
    /\ tunnel_client.pc = "loop" /\ tunnel_client.ended_by = "clean_close"
    /\ \E i \in DOMAIN tunnel_client.sent : tunnel_client.sent[i].type = "attest_response"

====
